---------------------------- MODULE Spec2Model ----------------------------
(***************************************************************************)
(* Register access layer of the Parmair Modbus integration:                *)
(*   custom_components/parmair/const.py            register catalog        *)
(*   custom_components/parmair/pymodbus_compat.py  transport shim          *)
(*   custom_components/parmair/coordinator.py      poll coordinator        *)
(*   custom_components/parmair/config_flow.py      setup flow and detector *)
(*                                                                         *)
(* Twelve specifications share the module.  Spec is the coordinator: one   *)
(* poll thread, one writer thread and the shutdown job, interleaved at any *)
(* lock operation and transport call.  SpecShim is the transport shim:     *)
(* threads calling read_holding_registers / write_register of              *)
(* pymodbus_compat against a library that accepts one keyword (or none).   *)
(* SpecFlow is the setup flow: the user form, validate_connection with its *)
(* firmware detector, and the manual_version form.  SpecRanges and         *)
(* SpecCodec apply _build_read_ranges and the decode and encode steps to   *)
(* arguments drawn from bounded sets.  SpecModes is Spec over 2.x          *)
(* installations in every control state, SpecFair is Spec with the lock    *)
(* and the threads scheduled fairly, and SpecCatalog applies the catalog   *)
(* lookups of const.py to version strings and keys.  SpecNumber applies    *)
(* the number entity's async_set_native_value to the values of its grid,   *)
(* SpecSetup is the setup flow followed by the construction of the         *)
(* coordinator from the entry it created, SpecLocks is the coordinator's   *)
(* lock around the shim's lock with a detector calling the shim beside it, *)
(* and SpecBlock applies _read_register_block and the store after it to    *)
(* one span under every answer of the transport.                           *)
(*                                                                         *)
(* Engineering values are carried as integer hundredths: the scales of the *)
(* catalog are 1, 0.1 and 0.01, written 100, 10 and 1.                     *)
(***************************************************************************)
EXTENDS Integers, Sequences, FiniteSets, TLC

VARIABLES
    software_version,   \* ParmairCoordinator.software_version (a string, as characters)
    slave_id,           \* ParmairCoordinator.slave_id
    device,             \* the controller's holding registers: address -> 16-bit word
    lock,               \* ParmairCoordinator._lock: the thread holding it, or NoThread
    pc,                 \* position of each thread
    read_client,        \* the per-cycle read connection: "none", "created", "connected", "closed"
    client_connected,   \* ParmairCoordinator._client.connected (the long-lived write connection)
    static_data,        \* ParmairCoordinator._static_data
    static_data_read,   \* ParmairCoordinator._static_data_read
    data,               \* the map of the running cycle; after the return, the published map
    span_i,             \* poll cycle: index of the span being read
    attempt,            \* poll cycle: number of the read attempt on that span (1..4)
    wakeups,            \* poll cycle: how each wake-up read made so far ended
    span_failed,        \* poll cycle: dynamic spans that failed on every attempt (failed_registers)
    static_span_failed, \* history: static spans that failed on every attempt in the static read
    poll_result,        \* how the last poll cycle ended
    wkey, wval,         \* write_register: its arguments
    wresult,            \* write_register: how the last call ended
    call,               \* the transport call made by the last step, or NoCall
    read_kwarg,         \* pymodbus_compat._read_kwarg
    write_kwarg,        \* pymodbus_compat._write_kwarg
    shim_lock,          \* pymodbus_compat._lock: the thread holding it, or NoThread
    accepted,           \* the keyword the installed pymodbus accepts, or None
    spc,                \* shim: position of each calling thread
    sop,                \* shim: "read" or "write", the function each thread is in
    cand_i,             \* shim: index of the candidate being probed
    ncalls,             \* shim: transport calls made by the thread's current call
    path,               \* shim: the branch the thread's call took: "fast", "locked" or "probe"
    used_kw,            \* shim: the keyword of the thread's latest transport call
    sres,               \* shim: how the thread's latest call ended
    probe_calls,        \* shim: per function, the calls so far that entered the candidate loop
    fpc,                \* config flow: the step the flow is at
    flow_client,        \* validate_connection: its client: "none", "open" or "closed"
    warm_n,             \* _detect_device_info: warm-up reads made so far
    det_i,              \* _detect_device_info: index of the detection set being tried
    raw_sw,             \* _detect_device_info: raw_sw of the running iteration
    raw_vm,             \* _detect_device_info: raw_vm of the running iteration
    detected_sw_version,   \* _detect_device_info: detected_sw_version
    detected_heater_type,  \* _detect_device_info: detected_heater_type
    detection_failed,   \* ParmairConfigFlow._detection_failed
    errors,             \* async_step_user: errors["base"], or None
    manual_input,       \* async_step_manual_version: the form the operator submitted
    entry,              \* the config entry the flow created, if any
    probed,             \* validate_connection: the reads it made through the shim so far
    applied,            \* the function applied by itself, "none" before
    arguments,          \* its arguments
    returned            \* what it returned

coordVars == <<software_version, slave_id, device, lock, pc, read_client, client_connected,
               static_data, static_data_read, data, span_i, attempt, wakeups,
               span_failed, static_span_failed, poll_result, wkey, wval, wresult,
               call>>
shimVars == <<read_kwarg, write_kwarg, shim_lock, accepted, spc, sop, cand_i,
              ncalls, path, used_kw, sres, probe_calls>>
flowVars == <<fpc, flow_client, warm_n, det_i, raw_sw, raw_vm, detected_sw_version,
              detected_heater_type, detection_failed, errors, manual_input, entry,
              probed>>
pureVars == <<applied, arguments, returned>>
vars == <<coordVars, shimVars, flowVars, pureVars>>

None == "None"
NoThread == "nobody"

-----------------------------------------------------------------------------
(* const.py: the register catalog *)

SOFTWARE_VERSION_1 == <<"1", ".", "x">>
SOFTWARE_VERSION_2 == <<"2", ".", "x">>

\* RegisterDefinition(key, address, label, scale, writable, optional)
RegisterDefinition(address, scale, writable, optional) ==
    [address |-> address, scale |-> scale, writable |-> writable, optional |-> optional]

\* A dict display: of the items that give the same key, the last one stays
dict_display(items) ==
    [key \in {items[i][1] : i \in 1..Len(items)} |->
        items[CHOOSE i \in 1..Len(items) :
                 /\ items[i][1] = key
                 /\ \A j \in (i + 1)..Len(items) : items[j][1] # key][2]]

\* The entries of _build_registers_v1 the model reads and writes, in the order of
\* the display; overpressure_timer is given twice (lines 180-182 and 239-241).
build_registers_v1 ==
    dict_display(<<
        <<"hardware_type",      RegisterDefinition(1244, 100, FALSE, FALSE)>>,
        <<"software_version",   RegisterDefinition(1018, 1, FALSE, FALSE)>>,
        <<"power",              RegisterDefinition(1208, 100, TRUE, FALSE)>>,
        <<"control_state",      RegisterDefinition(1185, 100, TRUE, FALSE)>>,
        <<"actual_speed",       RegisterDefinition(1186, 100, FALSE, FALSE)>>,
        <<"overpressure_timer", RegisterDefinition(1204, 100, TRUE, FALSE)>>,
        <<"humidity",           RegisterDefinition(1180, 100, FALSE, TRUE)>>,
        <<"overpressure_timer", RegisterDefinition(1204, 100, FALSE, FALSE)>> >>)

\* _build_registers_v2 returns the v1 map.
build_registers_v2 == build_registers_v1

\* Faulty variant: a prefix test that looks at the first character only
startswith_first(s, prefix) ==
    /\ Len(s) >= 1
    /\ s[1] = prefix[1]

\* str.startswith
startswith(s, prefix) ==
    /\ Len(s) >= Len(prefix)
    /\ \A i \in 1..Len(prefix) : s[i] = prefix[i]

\* Lines 294-298: the builder get_registers_for_version calls
selected_builder(version) == IF startswith(version, <<"2", ".">>) THEN "v2" ELSE "v1"

get_registers_for_version(version) ==
    IF selected_builder(version) = "v2" THEN build_registers_v2 ELSE build_registers_v1

\* STATIC_REGISTER_KEYS: the coordinator imports it and const.py does not define it.
\* PollState of the specification: the values read once and never again (the device
\* identity the coordinator's device_info shows).
STATIC_REGISTER_KEYS == <<"software_version", "hardware_type">>

\* POLLING_REGISTER_KEYS, in its order, cut to the keys above that are read every
\* cycle.  The coordinator counts len(data) - len(static_data) as the dynamic values
\* (line 263): the keys read once are not polled.
POLLING_REGISTER_KEYS == <<"power", "control_state", "actual_speed", "humidity">>

\* Keys the v2 post-processing adds to the map.
DerivedKeys == {"home_state", "boost_state", "overpressure_state"}

MapKeys == DOMAIN build_registers_v1 \cup DerivedKeys

\* {}: a dict is a function whose domain is the set of its keys
EmptyMap == [k \in {} |-> 0]

\* Faulty variant: a lookup that answers an unknown key with a default definition
get_register_definition_default(key, reg_map) ==
    IF key \notin DOMAIN reg_map
    THEN [raised |-> None, definition |-> RegisterDefinition(0, 100, FALSE, FALSE)]
    ELSE [raised |-> None, definition |-> reg_map[key]]

\* get_register_definition: the definition, or the KeyError it raises
get_register_definition(key, reg_map) ==
    IF key \notin DOMAIN reg_map
    THEN [raised |-> "KeyError", definition |-> RegisterDefinition(0, 100, FALSE, FALSE)]
    ELSE [raised |-> None, definition |-> reg_map[key]]

-----------------------------------------------------------------------------
(* coordinator.py: pure helpers *)

RECURSIVE sorted(_)
sorted(S) ==
    IF S = {} THEN <<>>
    ELSE LET m == CHOOSE x \in S : \A y \in S : x <= y
         IN <<m>> \o sorted(S \ {m})

\* Faulty variant: spans extended without regard to max_registers
RECURSIVE build_read_ranges_loop_nolimit(_, _, _, _, _, _)
build_read_ranges_loop_nolimit(addresses, i, start, count, ranges, max_registers) ==
    IF i > Len(addresses) THEN Append(ranges, <<start, count>>)
    ELSE LET prev == addresses[i - 1]
             curr == addresses[i]
         IN IF curr = prev + 1
            THEN build_read_ranges_loop_nolimit(addresses, i + 1, start, count + 1, ranges,
                                                max_registers)
            ELSE build_read_ranges_loop_nolimit(addresses, i + 1, curr, 1,
                                                Append(ranges, <<start, count>>),
                                                max_registers)

\* Faulty variant: spans closed one address early, at max_registers - 1
RECURSIVE build_read_ranges_loop_early(_, _, _, _, _, _)
build_read_ranges_loop_early(addresses, i, start, count, ranges, max_registers) ==
    IF i > Len(addresses) THEN Append(ranges, <<start, count>>)
    ELSE LET prev == addresses[i - 1]
             curr == addresses[i]
         IN IF curr = prev + 1 /\ count < max_registers - 1
            THEN build_read_ranges_loop_early(addresses, i + 1, start, count + 1, ranges,
                                              max_registers)
            ELSE build_read_ranges_loop_early(addresses, i + 1, curr, 1,
                                              Append(ranges, <<start, count>>),
                                              max_registers)

\* The loop of _build_read_ranges over zip(addresses[:-1], addresses[1:]).
RECURSIVE build_read_ranges_loop(_, _, _, _, _, _)
build_read_ranges_loop(addresses, i, start, count, ranges, max_registers) ==
    IF i > Len(addresses) THEN Append(ranges, <<start, count>>)
    ELSE LET prev == addresses[i - 1]
             curr == addresses[i]
         IN IF curr = prev + 1 /\ count < max_registers
            THEN build_read_ranges_loop(addresses, i + 1, start, count + 1, ranges,
                                        max_registers)
            ELSE build_read_ranges_loop(addresses, i + 1, curr, 1,
                                        Append(ranges, <<start, count>>), max_registers)

build_read_ranges(address_set, max_registers) ==
    IF address_set = {} THEN <<>>
    ELSE LET addresses == sorted(address_set)
         IN build_read_ranges_loop(addresses, 2, addresses[1], 1, <<>>, max_registers)

\* The default of _build_read_ranges' max_registers.
MAX_REGISTERS == 125

\* self._registers
registers == get_registers_for_version(software_version)

\* self._static_registers and self._poll_registers, as sequences of keys
static_registers == SelectSeq(STATIC_REGISTER_KEYS, LAMBDA k : k \in DOMAIN registers)
poll_registers == SelectSeq(POLLING_REGISTER_KEYS, LAMBDA k : k \in DOMAIN registers)

\* address -> the keys read from it, in list order (setdefault(address, []).append),
\* for a register list given by its keys and the map that defines them
definitions_by_address(reg_map, keys) ==
    [a \in {reg_map[keys[i]].address : i \in 1..Len(keys)} |->
        SelectSeq(keys, LAMBDA k : reg_map[k].address = a)]

\* The same for the coordinator's own map
address_to_definitions(keys) == definitions_by_address(registers, keys)

static_spans == build_read_ranges(DOMAIN address_to_definitions(static_registers), MAX_REGISTERS)
poll_spans == build_read_ranges(DOMAIN address_to_definitions(poll_registers), MAX_REGISTERS)

\* Faulty variant: the raw value returned as it is, whatever the scale
from_raw_unscaled(definition, raw) == raw * 100

\* _from_raw: raw * scale (scale 1 returns raw itself), in hundredths
from_raw(definition, raw) == IF definition.scale = 100 THEN raw * 100 ELSE raw * definition.scale

\* Python floor division and int(): truncation toward zero
trunc_div(a, b) == IF a >= 0 THEN a \div b ELSE -((-a) \div b)

\* round(a / b) for b > 0: to nearest, ties to the even integer
round_div(a, b) ==
    LET q == a \div b
        r == a % b
    IN IF 2 * r < b THEN q
       ELSE IF 2 * r > b THEN q + 1
       ELSE IF q % 2 = 0 THEN q ELSE q + 1

\* _to_raw: int(value) at scale 1, else int(round(value / scale))
to_raw(definition, value) ==
    IF definition.scale = 100 THEN trunc_div(value, 100) ELSE round_div(value, definition.scale)

\* Faulty variant: the quotient cut instead of rounded
to_raw_cut(definition, value) == {trunc_div(value, definition.scale)}

\* _to_raw in binary floating point: what int(round(float(value) / scale)) can give.
\* 0.5 and the halves of it are exact, so round() sees the tie and takes the even
\* neighbour; value / 0.1 is not exact, and at a tie lands on either side of it
to_raw_float(definition, value) ==
    IF definition.scale = 10 /\ value % 10 = 5
    THEN {value \div 10, value \div 10 + 1}
    ELSE {to_raw(definition, value)}

\* The transport's answer to a read of (address, count): what the device or the
\* library hands back for each way a request can end.
ReadOutcomes == {"ok", "error", "empty", "short", "long", "raise"}

response(outcome, address, count) ==
    CASE outcome = "ok"    -> [kind |-> "result", registers |-> [i \in 1..count |-> device[address + i - 1]]]
      [] outcome = "short" -> [kind |-> "result", registers |-> [i \in 1..(count - 1) |-> device[address + i - 1]]]
      [] outcome = "long"  -> [kind |-> "result", registers |-> [i \in 1..(count + 1) |-> device[address]]]
      [] outcome = "empty" -> [kind |-> "falsy", registers |-> <<>>]
      [] outcome = "error" -> [kind |-> "isError", registers |-> <<>>]
      [] outcome = "raise" -> [kind |-> "exception", registers |-> <<>>]

\* Faulty variant: the words handed on as received, without the int16 conversion
read_register_block_unsigned(result, count) ==
    IF result.kind # "result" THEN [ok |-> FALSE, words |-> <<>>]
    ELSE IF Len(result.registers) # count THEN [ok |-> FALSE, words |-> <<>>]
    ELSE [ok |-> TRUE, words |-> [i \in 1..count |-> result.registers[i]]]

\* Faulty variant: an answer of any length taken as the block
read_register_block_any_length(result, count) ==
    IF result.kind # "result" THEN [ok |-> FALSE, words |-> <<>>]
    ELSE IF Len(result.registers) = 0 THEN [ok |-> FALSE, words |-> <<>>]
    ELSE [ok |-> TRUE,
          words |-> [i \in 1..Len(result.registers) |->
                        IF result.registers[i] > 32767 THEN result.registers[i] - 65536
                        ELSE result.registers[i]]]

\* _read_register_block: the signed words of a complete answer, or None (ok = FALSE)
read_register_block(result, count) ==
    IF result.kind # "result" THEN [ok |-> FALSE, words |-> <<>>]
    ELSE IF Len(result.registers) # count THEN [ok |-> FALSE, words |-> <<>>]
    ELSE [ok |-> TRUE,
          words |-> [i \in 1..count |->
                        IF result.registers[i] > 32767 THEN result.registers[i] - 65536
                        ELSE result.registers[i]]]

\* The keys of a register list, as a set
key_set(keys) == {keys[i] : i \in 1..Len(keys)}

\* Lines 180-188: the static store of one block; each definition of an address is
\* tested and decoded by itself
store_static_in(sd, start_addr, block, reg_map, keys) ==
    LET hit == {k \in key_set(keys) :
                   /\ reg_map[k].address - start_addr + 1 \in 1..Len(block)
                   /\ ~(reg_map[k].optional
                        /\ block[reg_map[k].address - start_addr + 1] < 0)}
    IN [k \in DOMAIN sd \cup hit |->
          IF k \in hit
          THEN from_raw(reg_map[k], block[reg_map[k].address - start_addr + 1])
          ELSE sd[k]]

\* The static store with the coordinator's own map and static list
store_static(sd, start_addr, block) ==
    store_static_in(sd, start_addr, block, registers, static_registers)

\* Faulty variant: the dynamic store without the test of the optional flag
store_dynamic_in_keep(d, start_addr, block, reg_map, keys) ==
    LET defs == definitions_by_address(reg_map, keys)
        hit == {k \in key_set(keys) :
                   reg_map[k].address - start_addr + 1 \in 1..Len(block)}
    IN [k \in DOMAIN d \cup hit |->
          IF k \in hit
          THEN from_raw(reg_map[defs[reg_map[k].address][1]],
                        block[reg_map[k].address - start_addr + 1])
          ELSE d[k]]

\* Faulty variant: the dynamic store keeping the value under the first key of an
\* address only
store_dynamic_in_first(d, start_addr, block, reg_map, keys) ==
    LET defs == definitions_by_address(reg_map, keys)
        hit == {k \in key_set(keys) :
                   /\ reg_map[k].address - start_addr + 1 \in 1..Len(block)
                   /\ k = defs[reg_map[k].address][1]
                   /\ ~(reg_map[k].optional
                        /\ block[reg_map[k].address - start_addr + 1] < 0)}
    IN [k \in DOMAIN d \cup hit |->
          IF k \in hit
          THEN from_raw(reg_map[k], block[reg_map[k].address - start_addr + 1])
          ELSE d[k]]

\* Lines 220-230: the dynamic store of one block; every key of an address takes the
\* value decoded with the first definition of that address
store_dynamic_in(d, start_addr, block, reg_map, keys) ==
    LET defs == definitions_by_address(reg_map, keys)
        hit == {k \in key_set(keys) :
                   /\ reg_map[k].address - start_addr + 1 \in 1..Len(block)
                   /\ ~(reg_map[defs[reg_map[k].address][1]].optional
                        /\ block[reg_map[k].address - start_addr + 1] < 0)}
    IN [k \in DOMAIN d \cup hit |->
          IF k \in hit
          THEN from_raw(reg_map[defs[reg_map[k].address][1]],
                        block[reg_map[k].address - start_addr + 1])
          ELSE d[k]]

\* The dynamic store with the coordinator's own map and polled list
store_dynamic(d, start_addr, block) ==
    store_dynamic_in(d, start_addr, block, registers, poll_registers)

\* data.update(self._static_data)
update(d, sd) == [k \in DOMAIN d \cup DOMAIN sd |-> IF k \in DOMAIN sd THEN sd[k] ELSE d[k]]

\* dict with one more item
with_item(d, key, value) == [k \in DOMAIN d \cup {key} |-> IF k = key THEN value ELSE d[k]]

\* Faulty variant: the overpressure flag derived from the sauna state alone
derive_states_sauna(d) ==
    LET is_v2 == software_version = SOFTWARE_VERSION_2 \/ startswith(software_version, <<"2", ".">>)
    IN IF is_v2 /\ "control_state" \in DOMAIN d
       THEN LET user_state == d["control_state"]
            IN with_item(with_item(with_item(d,
                   "home_state", IF user_state = 200 THEN 100 ELSE 0),
                   "boost_state", IF user_state = 300 THEN 100 ELSE 0),
                   "overpressure_state", IF user_state = 400 THEN 100 ELSE 0)
       ELSE d

\* Lines 246-256: the three flags derived from control_state on 2.x firmware
derive_states(d) ==
    LET is_v2 == software_version = SOFTWARE_VERSION_2 \/ startswith(software_version, <<"2", ".">>)
    IN IF is_v2 /\ "control_state" \in DOMAIN d
       THEN LET user_state == d["control_state"]
            IN with_item(with_item(with_item(d,
                   "home_state", IF user_state = 200 THEN 100 ELSE 0),
                   "boost_state", IF user_state = 300 THEN 100 ELSE 0),
                   "overpressure_state", IF user_state \in {400, 500} THEN 100 ELSE 0)
       ELSE d

-----------------------------------------------------------------------------
(* coordinator.py: the coordinator's threads *)

Threads == {"poll", "writer", "shutdown"}

\* A transport call: who made it, what it was, and how it ended
\* The calls that go through pymodbus_compat carry self.slave_id (lines 288 and 369);
\* connect, close and the wake-up read of line 164 carry no unit id
NoUnit == -1
ShimOps == {"read_static", "read_dynamic", "write"}
NoCall == [by |-> NoThread, op |-> "none", address |-> 0, arg |-> 0, outcome |-> "none",
           unit |-> NoUnit]
Call(thread, op, address, arg, outcome) ==
    [by |-> thread, op |-> op, address |-> address, arg |-> arg, outcome |-> outcome,
     unit |-> IF op \in ShimOps THEN slave_id ELSE NoUnit]

\* Two installations: a 1.x controller with the humidity module, at home; a 2.x
\* controller without it (the register reads -1), in fireplace mode.
Installations ==
    { [version |-> SOFTWARE_VERSION_1,
       registers |-> (1018 :> 183) @@ (1244 :> 80) @@ (1208 :> 3) @@ (1185 :> 2)
                     @@ (1186 :> 3) @@ (1180 :> 45)],
      [version |-> SOFTWARE_VERSION_2,
       registers |-> (1018 :> 210) @@ (1244 :> 112) @@ (1208 :> 3) @@ (1185 :> 5)
                     @@ (1186 :> 4) @@ (1180 :> 65535)] }

\* Arguments the entities pass to write_register
WriteKeys == {"power", "actual_speed", "fan_boost"}
WriteValues == {300}

\* range(3) of the retry loops: lines 175 and 209
STATIC_RETRIES == 3
POLL_RETRIES == 3

\* The wake-up read's address: line 164
WAKEUP_ADDRESS == 1001

\* pymodbus_compat at import: lines 21-23, and no thread inside it
ShimThreads == {"t1", "t2"}

ShimIdle ==
    /\ read_kwarg = None
    /\ write_kwarg = None
    /\ shim_lock = NoThread
    /\ spc = [t \in ShimThreads |-> "idle"]
    /\ sop = [t \in ShimThreads |-> "none"]
    /\ cand_i = [t \in ShimThreads |-> 0]
    /\ ncalls = [t \in ShimThreads |-> 0]
    /\ path = [t \in ShimThreads |-> "none"]
    /\ used_kw = [t \in ShimThreads |-> None]
    /\ sres = [t \in ShimThreads |-> "none"]
    /\ probe_calls = [op \in {"read", "write"} |-> 0]

\* const.py line 24, as characters like the other version strings
SOFTWARE_VERSION_UNKNOWN == <<"u", "n", "k", "n", "o", "w", "n">>

\* const.py line 19
DEFAULT_SLAVE_ID == 1

\* coordinator.py lines 96-104: the unit id of the entry, a legacy 1 taken as 0
coordinator_slave_id(raw_slave_id) == IF raw_slave_id = 1 THEN 0 ELSE raw_slave_id

\* const.py lines 30-33
HEATER_TYPE_WATER == 0
HEATER_TYPE_ELECTRIC == 1
HEATER_TYPE_NONE == 2
HEATER_TYPE_UNKNOWN == -1

\* Faulty variant: the list of lines 97-110 with the 1.xx set first
detection_sets_v1_first ==
    << [firmware |-> "1.xx", sw_address |-> 1018, vm_address |-> 1244,
        sw_min |-> 100, sw_max |-> 199],
       [firmware |-> "2.xx", sw_address |-> 1015, vm_address |-> 1125,
        sw_min |-> 200, sw_max |-> 299] >>

\* config_flow.py lines 97-110; the bands 2.0..2.99 and 1.0..1.99 in hundredths
detection_sets ==
    << [firmware |-> "2.xx", sw_address |-> 1015, vm_address |-> 1125,
        sw_min |-> 200, sw_max |-> 299],
       [firmware |-> "1.xx", sw_address |-> 1018, vm_address |-> 1244,
        sw_min |-> 100, sw_max |-> 199] >>

\* A register read that gave nothing: _read_register returned None
NoRead == [ok |-> FALSE, value |-> 0]

\* The manual_version form before the operator submits it
NoInput == [submitted |-> FALSE, software_version |-> SOFTWARE_VERSION_UNKNOWN,
            heater_type |-> HEATER_TYPE_UNKNOWN]

\* No config entry yet
NoEntry == [created |-> FALSE, software_version |-> SOFTWARE_VERSION_UNKNOWN,
            heater_type |-> HEATER_TYPE_UNKNOWN, slave_id |-> NoUnit]

\* config_flow.py lines 112 and 299: data.get(CONF_SLAVE_ID, DEFAULT_SLAVE_ID), where
\* line 349 has put DEFAULT_SLAVE_ID into the submitted form
unit_id == DEFAULT_SLAVE_ID

\* Lines 116-118 and 300-302: a read of one register through the shim, as recorded
FlowRead(step, address) == [step |-> step, address |-> address, unit |-> unit_id]

\* No function applied by itself
PureIdle ==
    /\ applied = "none"
    /\ arguments = <<>>
    /\ returned = <<>>

\* ParmairConfigFlow.__init__ (lines 329-333) and the locals of lines 82-85
FlowIdle ==
    /\ fpc = "user_form"
    /\ flow_client = "none"
    /\ warm_n = 0
    /\ det_i = 0
    /\ raw_sw = NoRead
    /\ raw_vm = NoRead
    /\ detected_sw_version = SOFTWARE_VERSION_UNKNOWN
    /\ detected_heater_type = HEATER_TYPE_UNKNOWN
    /\ detection_failed = FALSE
    /\ probed = <<>>
    /\ errors = None
    /\ manual_input = NoInput
    /\ entry = NoEntry

\* ParmairCoordinator.__init__
Init ==
    /\ \E inst \in Installations :
         /\ software_version = inst.version
         /\ slave_id = coordinator_slave_id(DEFAULT_SLAVE_ID)
         /\ device = inst.registers
    /\ lock = NoThread
    /\ pc = [t \in Threads |-> "idle"]
    /\ read_client = "none"
    /\ client_connected = FALSE
    /\ static_data = EmptyMap
    /\ static_data_read = FALSE
    /\ data = EmptyMap
    /\ span_i = 0
    /\ attempt = 0
    /\ wakeups = <<>>
    /\ span_failed = {}
    /\ static_span_failed = {}
    /\ poll_result = "none"
    /\ wkey = None
    /\ wval = 0
    /\ wresult = "none"
    /\ call = NoCall
    /\ accepted = "device_id"
    /\ ShimIdle
    /\ FlowIdle
    /\ PureIdle

\* Faulty variant: a return without the finally clause, the read client left open
Publish_NoClose(d, sd) ==
    /\ data' = derive_states(update(d, sd))
    /\ read_client' = "connected"
    /\ lock' = NoThread
    /\ poll_result' = "ok"
    /\ pc' = [pc EXCEPT !["poll"] = "idle"]

\* Lines 240-272: merge, derive, return; the finally clause closes the read client
\* and the with statement releases the lock
Publish(d, sd) ==
    /\ data' = derive_states(update(d, sd))
    /\ read_client' = "closed"
    /\ lock' = NoThread
    /\ poll_result' = "ok"
    /\ pc' = [pc EXCEPT !["poll"] = "idle"]

\* Faulty variant: the dynamic read filling the map of the cycle before instead of a fresh one
BeginDynamic_KeepMap(sd) ==
    IF poll_spans = <<>>
    THEN /\ Publish(data, sd)
         /\ span_i' = 0
         /\ attempt' = 0
         /\ span_failed' = {}
    ELSE /\ data' = data
         /\ span_failed' = {}
         /\ span_i' = 1
         /\ attempt' = 1
         /\ pc' = [pc EXCEPT !["poll"] = "dynamic"]
         /\ UNCHANGED <<lock, read_client, poll_result>>

\* Lines 197-207: the fresh map and the first dynamic span
BeginDynamic(sd) ==
    IF poll_spans = <<>>
    THEN /\ Publish(EmptyMap, sd)
         /\ span_i' = 0
         /\ attempt' = 0
         /\ span_failed' = {}
    ELSE /\ data' = EmptyMap
         /\ span_failed' = {}
         /\ span_i' = 1
         /\ attempt' = 1
         /\ pc' = [pc EXCEPT !["poll"] = "dynamic"]
         /\ UNCHANGED <<lock, read_client, poll_result>>

\* Lines 136-145: the update is due; _read_modbus_data runs in an executor thread
\* and waits at `with self._lock`
PollCall ==
    /\ pc["poll"] = "idle"
    /\ pc' = [pc EXCEPT !["poll"] = "lock"]
    /\ call' = NoCall
    /\ UNCHANGED <<software_version, slave_id, device, wakeups, lock, read_client, client_connected,
                   static_data, static_data_read, data, span_i, attempt, span_failed,
                   static_span_failed, poll_result, wkey, wval, wresult, shimVars,
                   flowVars, pureVars>>

\* Lines 145-148: take the lock, make the cycle's own client
PollStart ==
    /\ pc["poll"] = "lock"
    /\ lock = NoThread
    /\ lock' = "poll"
    /\ read_client' = "created"
    /\ poll_result' = "running"
    /\ pc' = [pc EXCEPT !["poll"] = "connect"]
    /\ span_failed' = {}
    /\ wakeups' = <<>>
    /\ call' = NoCall
    /\ UNCHANGED <<software_version, slave_id, device, client_connected, static_data,
                   static_data_read, data, span_i, attempt, static_span_failed, wkey,
                   wval, wresult, shimVars, flowVars, pureVars>>

\* Faulty variant: a refused connection raising without the client being closed
PollConnect_NoClose ==
    /\ pc["poll"] = "connect"
    /\ \E connected \in BOOLEAN :
         /\ call' = Call("poll", "connect", 0, 0, IF connected THEN "ok" ELSE "refused")
         /\ IF connected
            THEN /\ read_client' = "connected"
                 /\ pc' = [pc EXCEPT !["poll"] = "warmup"]
                 /\ UNCHANGED <<lock, poll_result>>
            ELSE /\ read_client' = "created"
                 /\ lock' = NoThread
                 /\ poll_result' = "UpdateFailed"
                 /\ pc' = [pc EXCEPT !["poll"] = "idle"]
    /\ UNCHANGED <<software_version, slave_id, device, wakeups, client_connected, static_data,
                   static_data_read, data, span_i, attempt, span_failed,
                   static_span_failed, wkey, wval, wresult, shimVars, flowVars, pureVars>>

\* Lines 149-160: connect; a refused connection raises ModbusException, the client is
\* closed and the exception leaves the with block (UpdateFailed, lines 136-141)
PollConnect ==
    /\ pc["poll"] = "connect"
    /\ \E connected \in BOOLEAN :
         /\ call' = Call("poll", "connect", 0, 0, IF connected THEN "ok" ELSE "refused")
         /\ IF connected
            THEN /\ read_client' = "connected"
                 /\ pc' = [pc EXCEPT !["poll"] = "warmup"]
                 /\ UNCHANGED <<lock, poll_result>>
            ELSE /\ read_client' = "closed"
                 /\ lock' = NoThread
                 /\ poll_result' = "UpdateFailed"
                 /\ pc' = [pc EXCEPT !["poll"] = "idle"]
    /\ UNCHANGED <<software_version, slave_id, device, wakeups, client_connected, static_data,
                   static_data_read, data, span_i, attempt, span_failed,
                   static_span_failed, wkey, wval, wresult, shimVars, flowVars, pureVars>>

\* Line 164: the wake-up read is a call on the client itself, inside
\* contextlib.suppress: it answers, answers with an error response, or raises
WakeupOutcomes == {"ok", "error", "raise"}

\* Faulty variant: a cycle that reads the static registers whatever the flag says
PollWarmup_Reread ==
    /\ pc["poll"] = "warmup"
    /\ \E outcome \in WakeupOutcomes :
         /\ call' = Call("poll", "wakeup", WAKEUP_ADDRESS, 1, outcome)
         /\ wakeups' = Append(wakeups, outcome)
    /\ IF static_spans = <<>>
       THEN /\ static_data_read' = TRUE
            /\ BeginDynamic(static_data)
       ELSE /\ span_i' = 1
            /\ attempt' = 1
            /\ pc' = [pc EXCEPT !["poll"] = "static"]
            /\ UNCHANGED <<static_data_read, data, span_failed, lock, read_client,
                           poll_result>>
    /\ UNCHANGED <<software_version, slave_id, device, client_connected, static_data,
                   static_span_failed, wkey, wval, wresult, shimVars, flowVars, pureVars>>

\* Faulty variant: a wake-up read whose exception leaves the cycle
PollWarmup_Raise ==
    /\ pc["poll"] = "warmup"
    /\ \E outcome \in WakeupOutcomes :
         /\ call' = Call("poll", "wakeup", WAKEUP_ADDRESS, 1, outcome)
         /\ wakeups' = Append(wakeups, outcome)
         /\ IF outcome = "raise"
            THEN /\ read_client' = "closed"
                 /\ lock' = NoThread
                 /\ poll_result' = "UpdateFailed"
                 /\ pc' = [pc EXCEPT !["poll"] = "idle"]
                 /\ UNCHANGED <<static_data_read, data, span_i, attempt, span_failed>>
            ELSE IF ~static_data_read
            THEN IF static_spans = <<>>
                 THEN /\ static_data_read' = TRUE
                      /\ BeginDynamic(static_data)
                 ELSE /\ span_i' = 1
                      /\ attempt' = 1
                      /\ pc' = [pc EXCEPT !["poll"] = "static"]
                      /\ UNCHANGED <<static_data_read, data, span_failed, lock,
                                     read_client, poll_result>>
            ELSE /\ BeginDynamic(static_data)
                 /\ UNCHANGED static_data_read
    /\ UNCHANGED <<software_version, slave_id, device, client_connected, static_data,
                   static_span_failed, wkey, wval, wresult, shimVars, flowVars, pureVars>>

\* Lines 162-173: the wake-up read, whatever it answers or raises, then the static
\* read when it is pending, else the dynamic read
PollWarmup ==
    /\ pc["poll"] = "warmup"
    /\ \E outcome \in WakeupOutcomes :
         /\ call' = Call("poll", "wakeup", WAKEUP_ADDRESS, 1, outcome)
         /\ wakeups' = Append(wakeups, outcome)
    /\ IF ~static_data_read
       THEN IF static_spans = <<>>
            THEN /\ static_data_read' = TRUE
                 /\ BeginDynamic(static_data)
            ELSE /\ span_i' = 1
                 /\ attempt' = 1
                 /\ pc' = [pc EXCEPT !["poll"] = "static"]
                 /\ UNCHANGED <<static_data_read, data, span_failed, lock, read_client,
                                poll_result>>
       ELSE /\ BeginDynamic(static_data)
            /\ UNCHANGED static_data_read
    /\ UNCHANGED <<software_version, slave_id, device, client_connected, static_data,
                   static_span_failed, wkey, wval, wresult, shimVars, flowVars, pureVars>>

\* Lines 173-195: one read of the current static span.  A failed read is repeated up
\* to STATIC_RETRIES times; then the block, if any, is stored and the next span
\* follows, or the flag is set and the dynamic read begins
PollStaticRead ==
    /\ pc["poll"] = "static"
    /\ \E outcome \in ReadOutcomes :
         LET start_addr == static_spans[span_i][1]
             span_count == static_spans[span_i][2]
             block == read_register_block(response(outcome, start_addr, span_count),
                                          span_count)
             sd == IF block.ok THEN store_static(static_data, start_addr, block.words)
                   ELSE static_data
             failed == IF block.ok THEN static_span_failed
                       ELSE static_span_failed \cup {span_i}
         IN /\ call' = Call("poll", "read_static", start_addr, span_count,
                            IF block.ok THEN "ok" ELSE "failed")
            /\ IF ~block.ok /\ attempt < 1 + STATIC_RETRIES
               THEN /\ attempt' = attempt + 1
                    /\ UNCHANGED <<static_data, static_data_read, static_span_failed,
                                   span_i, data, span_failed, pc, lock, read_client,
                                   poll_result>>
               ELSE /\ static_data' = sd
                    /\ static_span_failed' = failed
                    /\ IF span_i < Len(static_spans)
                       THEN /\ span_i' = span_i + 1
                            /\ attempt' = 1
                            /\ UNCHANGED <<static_data_read, data, span_failed, pc, lock,
                                           read_client, poll_result>>
                       ELSE /\ static_data_read' = TRUE
                            /\ BeginDynamic(sd)
    /\ UNCHANGED <<software_version, slave_id, device, wakeups, client_connected, wkey, wval, wresult,
                   shimVars, flowVars, pureVars>>

\* Faulty variant: the dynamic retry loop of line 209 running once more, range(4)
PollDynamicRead_FiveTries ==
    /\ pc["poll"] = "dynamic"
    /\ \E outcome \in ReadOutcomes :
         LET start_addr == poll_spans[span_i][1]
             span_count == poll_spans[span_i][2]
             block == read_register_block(response(outcome, start_addr, span_count),
                                          span_count)
             d == IF block.ok THEN store_dynamic(data, start_addr, block.words) ELSE data
             failed == IF block.ok THEN span_failed ELSE span_failed \cup {span_i}
         IN /\ call' = Call("poll", "read_dynamic", start_addr, span_count,
                            IF block.ok THEN "ok" ELSE "failed")
            /\ IF ~block.ok /\ attempt < 2 + POLL_RETRIES
               THEN /\ attempt' = attempt + 1
                    /\ UNCHANGED <<span_i, data, span_failed, pc, lock, read_client,
                                   poll_result>>
               ELSE /\ span_failed' = failed
                    /\ IF span_i < Len(poll_spans)
                       THEN /\ data' = d
                            /\ span_i' = span_i + 1
                            /\ attempt' = 1
                            /\ UNCHANGED <<pc, lock, read_client, poll_result>>
                       ELSE /\ Publish(d, static_data)
                            /\ span_i' = 0
                            /\ attempt' = 0
    /\ UNCHANGED <<software_version, slave_id, device, wakeups, client_connected, static_data,
                   static_data_read, static_span_failed, wkey, wval, wresult, shimVars, flowVars, pureVars>>

\* Lines 207-265: one read of the current dynamic span.  A span that failed on every
\* attempt is listed and skipped; after the last span the map is published
PollDynamicRead ==
    /\ pc["poll"] = "dynamic"
    /\ \E outcome \in ReadOutcomes :
         LET start_addr == poll_spans[span_i][1]
             span_count == poll_spans[span_i][2]
             block == read_register_block(response(outcome, start_addr, span_count),
                                          span_count)
             d == IF block.ok THEN store_dynamic(data, start_addr, block.words) ELSE data
             failed == IF block.ok THEN span_failed ELSE span_failed \cup {span_i}
         IN /\ call' = Call("poll", "read_dynamic", start_addr, span_count,
                            IF block.ok THEN "ok" ELSE "failed")
            /\ IF ~block.ok /\ attempt < 1 + POLL_RETRIES
               THEN /\ attempt' = attempt + 1
                    /\ UNCHANGED <<span_i, data, span_failed, pc, lock, read_client,
                                   poll_result>>
               ELSE /\ span_failed' = failed
                    /\ IF span_i < Len(poll_spans)
                       THEN /\ data' = d
                            /\ span_i' = span_i + 1
                            /\ attempt' = 1
                            /\ UNCHANGED <<pc, lock, read_client, poll_result>>
                       ELSE /\ Publish(d, static_data)
                            /\ span_i' = 0
                            /\ attempt' = 0
    /\ UNCHANGED <<software_version, slave_id, device, wakeups, client_connected, static_data,
                   static_data_read, static_span_failed, wkey, wval, wresult, shimVars, flowVars, pureVars>>

\* What the transport does with a connect and with a single-register write
ConnectOutcomes == {"ok", "refused", "raise"}
WriteOutcomes == {"ok", "error", "none", "raise"}

\* Faulty variant: the test of line 302 cut to "result is not None"
write_succeeded_not_none(outcome) == outcome \in {"ok", "error"}

\* Line 302: not result.isError() if hasattr(result, "isError") else result is not None
write_succeeded(outcome) == outcome = "ok"

\* Lines 274-277 and 303-310: the lookup, outside the try and the lock.  An unknown
\* key raises KeyError out of write_register
WriteCall ==
    /\ pc["writer"] = "idle"
    /\ \E key \in WriteKeys, value \in WriteValues :
         IF get_register_definition(key, registers).raised = "KeyError"
         THEN /\ wresult' = "KeyError"
              /\ UNCHANGED <<wkey, wval, pc>>
         ELSE /\ wkey' = key
              /\ wval' = value
              /\ wresult' = "running"
              /\ pc' = [pc EXCEPT !["writer"] = "lock"]
    /\ call' = NoCall
    /\ UNCHANGED <<software_version, slave_id, device, wakeups, lock, read_client, client_connected,
                   static_data, static_data_read, data, span_i, attempt, span_failed,
                   static_span_failed, poll_result, shimVars, flowVars, pureVars>>

\* Faulty variant: a write that does not take the coordinator's lock
WriteAcquire_NoLock ==
    /\ pc["writer"] = "lock"
    /\ pc' = [pc EXCEPT !["writer"] = IF client_connected THEN "write" ELSE "connect"]
    /\ call' = NoCall
    /\ UNCHANGED <<software_version, slave_id, device, wakeups, lock, read_client, client_connected,
                   static_data, static_data_read, data, span_i, attempt, span_failed,
                   static_span_failed, poll_result, wkey, wval, wresult, shimVars, flowVars, pureVars>>

\* Lines 278-279: take the lock and test self._client.connected
WriteAcquire ==
    /\ pc["writer"] = "lock"
    /\ lock = NoThread
    /\ lock' = "writer"
    /\ pc' = [pc EXCEPT !["writer"] = IF client_connected THEN "write" ELSE "connect"]
    /\ call' = NoCall
    /\ UNCHANGED <<software_version, slave_id, device, wakeups, read_client, client_connected, static_data,
                   static_data_read, data, span_i, attempt, span_failed,
                   static_span_failed, poll_result, wkey, wval, wresult, shimVars, flowVars, pureVars>>

\* Faulty variant: a failed connect returning False with the lock still held
WriteConnect_NoRelease ==
    /\ pc["writer"] = "connect"
    /\ \E outcome \in ConnectOutcomes :
         /\ call' = Call("writer", "connect", 0, 0, outcome)
         /\ IF outcome = "ok"
            THEN /\ client_connected' = TRUE
                 /\ pc' = [pc EXCEPT !["writer"] = "write"]
                 /\ UNCHANGED <<lock, wkey, wval, wresult>>
            ELSE /\ lock' = lock
                 /\ wresult' = "False"
                 /\ wkey' = None
                 /\ wval' = 0
                 /\ pc' = [pc EXCEPT !["writer"] = "idle"]
                 /\ UNCHANGED client_connected
    /\ UNCHANGED <<software_version, slave_id, device, wakeups, read_client, static_data,
                   static_data_read, data, span_i, attempt, span_failed,
                   static_span_failed, poll_result, shimVars, flowVars, pureVars>>

\* Lines 279-280: self._client.connect(); False returns False, an exception is caught
\* at line 303 and returns False
WriteConnect ==
    /\ pc["writer"] = "connect"
    /\ \E outcome \in ConnectOutcomes :
         /\ call' = Call("writer", "connect", 0, 0, outcome)
         /\ IF outcome = "ok"
            THEN /\ client_connected' = TRUE
                 /\ pc' = [pc EXCEPT !["writer"] = "write"]
                 /\ UNCHANGED <<lock, wkey, wval, wresult>>
            ELSE /\ lock' = NoThread
                 /\ wresult' = "False"
                 /\ wkey' = None
                 /\ wval' = 0
                 /\ pc' = [pc EXCEPT !["writer"] = "idle"]
                 /\ UNCHANGED client_connected
    /\ UNCHANGED <<software_version, slave_id, device, wakeups, read_client, static_data, static_data_read,
                   data, span_i, attempt, span_failed, static_span_failed, poll_result,
                   shimVars, flowVars, pureVars>>

\* Faulty variant: a write that closes self._client before it returns
WriteIssue_CloseAfter ==
    /\ pc["writer"] = "write"
    /\ LET definition == get_register_definition(wkey, registers).definition
           raw_value == to_raw(definition, wval)
       IN \E outcome \in WriteOutcomes :
               /\ call' = Call("writer", "write", definition.address, raw_value, outcome)
               /\ wresult' = IF write_succeeded(outcome) THEN "True" ELSE "False"
               /\ client_connected' = FALSE
    /\ lock' = NoThread
    /\ wkey' = None
    /\ wval' = 0
    /\ pc' = [pc EXCEPT !["writer"] = "idle"]
    /\ UNCHANGED <<software_version, slave_id, device, wakeups, read_client, static_data, static_data_read,
                   data, span_i, attempt, span_failed, static_span_failed, poll_result,
                   shimVars, flowVars, pureVars>>

\* Lines 283-310: encode, write through the shim, settle, return.  A transport that
\* raises may have dropped the socket
WriteIssue ==
    /\ pc["writer"] = "write"
    /\ LET definition == get_register_definition(wkey, registers).definition
           raw_value == to_raw(definition, wval)
       IN \E outcome \in WriteOutcomes :
               /\ call' = Call("writer", "write", definition.address, raw_value, outcome)
               /\ wresult' = IF write_succeeded(outcome) THEN "True" ELSE "False"
               /\ IF outcome = "raise"
                  THEN client_connected' \in BOOLEAN
                  ELSE UNCHANGED client_connected
    /\ lock' = NoThread
    /\ wkey' = None
    /\ wval' = 0
    /\ pc' = [pc EXCEPT !["writer"] = "idle"]
    /\ UNCHANGED <<software_version, slave_id, device, wakeups, read_client, static_data, static_data_read,
                   data, span_i, attempt, span_failed, static_span_failed, poll_result,
                   shimVars, flowVars, pureVars>>

\* Lines 320-321: _close takes the lock
ShutdownAcquire ==
    /\ pc["shutdown"] = "idle"
    /\ lock = NoThread
    /\ lock' = "shutdown"
    /\ pc' = [pc EXCEPT !["shutdown"] = "close"]
    /\ call' = NoCall
    /\ UNCHANGED <<software_version, slave_id, device, wakeups, read_client, client_connected, static_data,
                   static_data_read, data, span_i, attempt, span_failed,
                   static_span_failed, poll_result, wkey, wval, wresult, shimVars, flowVars, pureVars>>

\* Lines 322-325: close the write connection if it is open; an exception of close()
\* leaves _close and the job ("raised")
ShutdownClose ==
    /\ pc["shutdown"] = "close"
    /\ IF client_connected
       THEN /\ client_connected' = FALSE
            /\ \E raised \in BOOLEAN :
                 /\ call' = Call("shutdown", "close", 0, 0, IF raised THEN "raise" ELSE "ok")
                 /\ pc' = [pc EXCEPT !["shutdown"] = IF raised THEN "raised" ELSE "done"]
       ELSE /\ call' = NoCall
            /\ pc' = [pc EXCEPT !["shutdown"] = "done"]
            /\ UNCHANGED client_connected
    /\ lock' = NoThread
    /\ UNCHANGED <<software_version, slave_id, device, wakeups, read_client, static_data, static_data_read,
                   data, span_i, attempt, span_failed, static_span_failed, poll_result,
                   wkey, wval, wresult, shimVars, flowVars, pureVars>>

Next ==
    \/ PollCall
    \/ PollStart
    \/ PollConnect
    \/ PollWarmup
    \/ PollStaticRead
    \/ PollDynamicRead
    \/ WriteCall
    \/ WriteAcquire
    \/ WriteConnect
    \/ WriteIssue
    \/ ShutdownAcquire
    \/ ShutdownClose

Spec == Init /\ [][Next]_vars

\* The coordinator on 2.x controllers in each of the states the combined status
\* register shows (lines 243-244: 0 = off, 1 = away, 2 = home, 3 = boost, 4 = sauna,
\* 5 = fireplace), without the humidity module
ControlStates == 0..5

ModeInstallations ==
    { [version |-> SOFTWARE_VERSION_2,
       registers |-> (1018 :> 210) @@ (1244 :> 112) @@ (1208 :> 3) @@ (1185 :> c)
                     @@ (1186 :> 4) @@ (1180 :> 65535)] : c \in ControlStates }

InitModes ==
    /\ \E inst \in ModeInstallations :
         /\ software_version = inst.version
         /\ slave_id = coordinator_slave_id(DEFAULT_SLAVE_ID)
         /\ device = inst.registers
    /\ lock = NoThread
    /\ pc = [t \in Threads |-> "idle"]
    /\ read_client = "none"
    /\ client_connected = FALSE
    /\ static_data = EmptyMap
    /\ static_data_read = FALSE
    /\ data = EmptyMap
    /\ span_i = 0
    /\ attempt = 0
    /\ wakeups = <<>>
    /\ span_failed = {}
    /\ static_span_failed = {}
    /\ poll_result = "none"
    /\ wkey = None
    /\ wval = 0
    /\ wresult = "none"
    /\ call = NoCall
    /\ accepted = "device_id"
    /\ ShimIdle
    /\ FlowIdle
    /\ PureIdle

SpecModes == InitModes /\ [][Next]_vars

-----------------------------------------------------------------------------
(* pymodbus_compat.py: the transport shim *)

READ_CANDIDATES == <<"device_id", "slave", "unit">>

\* Faulty variant: line 27 with slave tried first
WRITE_CANDIDATES_slave_first == <<"slave", "device_id", "unit">>

WRITE_CANDIDATES == <<"device_id", "slave", "unit">>

\* Cap of the history counter probe_calls
MaxProbeCalls == 2

candidates(op) == IF op = "read" THEN READ_CANDIDATES ELSE WRITE_CANDIDATES
cached_kwarg(op) == IF op = "read" THEN read_kwarg ELSE write_kwarg

\* What the wire does once the library has accepted the call
TransportOutcomes == {"result", "error_result", "TransportError"}

\* client.read_holding_registers(..., **{kw: unit_id}) and client.write_register:
\* a keyword the installed library does not know is a TypeError, before any I/O
client_call(kw, outcome) == IF kw # accepted THEN "TypeError" ELSE outcome

\* Lines 32-34 and 56-58: the unsynchronized test of the cache
ShimCall(t) ==
    /\ spc[t] = "idle"
    /\ \E op \in {"read", "write"} :
         /\ sop' = [sop EXCEPT ![t] = op]
         /\ IF cached_kwarg(op) # None
            THEN /\ spc' = [spc EXCEPT ![t] = "fast"]
                 /\ path' = [path EXCEPT ![t] = "fast"]
            ELSE /\ spc' = [spc EXCEPT ![t] = "wait"]
                 /\ path' = [path EXCEPT ![t] = "none"]
    /\ ncalls' = [ncalls EXCEPT ![t] = 0]
    /\ used_kw' = [used_kw EXCEPT ![t] = None]
    /\ sres' = [sres EXCEPT ![t] = "running"]
    /\ cand_i' = [cand_i EXCEPT ![t] = 0]
    /\ UNCHANGED <<read_kwarg, write_kwarg, shim_lock, accepted, probe_calls, coordVars, flowVars, pureVars>>

\* Lines 34 and 58: the call with the cached keyword, outside the lock
ShimFast(t) ==
    /\ spc[t] = "fast"
    /\ \E outcome \in TransportOutcomes :
         sres' = [sres EXCEPT ![t] = client_call(cached_kwarg(sop[t]), outcome)]
    /\ used_kw' = [used_kw EXCEPT ![t] = cached_kwarg(sop[t])]
    /\ ncalls' = [ncalls EXCEPT ![t] = @ + 1]
    /\ spc' = [spc EXCEPT ![t] = "idle"]
    /\ UNCHANGED <<read_kwarg, write_kwarg, shim_lock, accepted, sop, cand_i, path,
                   probe_calls, coordVars, flowVars, pureVars>>

\* Faulty variant: the candidate loop entered without the second test of the cache
ShimLock_NoRecheck(t) ==
    /\ spc[t] = "wait"
    /\ shim_lock = NoThread
    /\ shim_lock' = t
    /\ spc' = [spc EXCEPT ![t] = "probe"]
    /\ path' = [path EXCEPT ![t] = "probe"]
    /\ cand_i' = [cand_i EXCEPT ![t] = 1]
    /\ probe_calls' = [probe_calls EXCEPT
                         ![sop[t]] = IF @ < MaxProbeCalls THEN @ + 1 ELSE @]
    /\ UNCHANGED <<read_kwarg, write_kwarg, accepted, sop, ncalls, used_kw, sres,
                   coordVars, flowVars, pureVars>>

\* Faulty variant: the candidate loop entered without waiting for the lock
ShimLock_NoMutex(t) ==
    /\ spc[t] = "wait"
    /\ shim_lock' = t
    /\ IF cached_kwarg(sop[t]) # None
       THEN /\ spc' = [spc EXCEPT ![t] = "locked"]
            /\ path' = [path EXCEPT ![t] = "locked"]
            /\ UNCHANGED <<cand_i, probe_calls>>
       ELSE /\ spc' = [spc EXCEPT ![t] = "probe"]
            /\ path' = [path EXCEPT ![t] = "probe"]
            /\ cand_i' = [cand_i EXCEPT ![t] = 1]
            /\ probe_calls' = [probe_calls EXCEPT
                                 ![sop[t]] = IF @ < MaxProbeCalls THEN @ + 1 ELSE @]
    /\ UNCHANGED <<read_kwarg, write_kwarg, accepted, sop, ncalls, used_kw, sres,
                   coordVars, flowVars, pureVars>>

\* Lines 35-36 and 59-60: take the lock and test the cache again
ShimLock(t) ==
    /\ spc[t] = "wait"
    /\ shim_lock = NoThread
    /\ shim_lock' = t
    /\ IF cached_kwarg(sop[t]) # None
       THEN /\ spc' = [spc EXCEPT ![t] = "locked"]
            /\ path' = [path EXCEPT ![t] = "locked"]
            /\ UNCHANGED <<cand_i, probe_calls>>
       ELSE /\ spc' = [spc EXCEPT ![t] = "probe"]
            /\ path' = [path EXCEPT ![t] = "probe"]
            /\ cand_i' = [cand_i EXCEPT ![t] = 1]
            /\ probe_calls' = [probe_calls EXCEPT
                                 ![sop[t]] = IF @ < MaxProbeCalls THEN @ + 1 ELSE @]
    /\ UNCHANGED <<read_kwarg, write_kwarg, accepted, sop, ncalls, used_kw, sres,
                   coordVars, flowVars, pureVars>>

\* Faulty variant: the call of lines 37-39 returning with the shim's lock still held
ShimLocked_NoRelease(t) ==
    /\ spc[t] = "locked"
    /\ \E outcome \in TransportOutcomes :
         sres' = [sres EXCEPT ![t] = client_call(cached_kwarg(sop[t]), outcome)]
    /\ used_kw' = [used_kw EXCEPT ![t] = cached_kwarg(sop[t])]
    /\ ncalls' = [ncalls EXCEPT ![t] = @ + 1]
    /\ spc' = [spc EXCEPT ![t] = "idle"]
    /\ UNCHANGED <<read_kwarg, write_kwarg, shim_lock, accepted, sop, cand_i, path,
                   probe_calls, coordVars, flowVars, pureVars>>

\* Lines 37-39 and 61: the call with the keyword another thread cached meanwhile
ShimLocked(t) ==
    /\ spc[t] = "locked"
    /\ \E outcome \in TransportOutcomes :
         sres' = [sres EXCEPT ![t] = client_call(cached_kwarg(sop[t]), outcome)]
    /\ used_kw' = [used_kw EXCEPT ![t] = cached_kwarg(sop[t])]
    /\ ncalls' = [ncalls EXCEPT ![t] = @ + 1]
    /\ shim_lock' = NoThread
    /\ spc' = [spc EXCEPT ![t] = "idle"]
    /\ UNCHANGED <<read_kwarg, write_kwarg, accepted, sop, cand_i, path, probe_calls,
                   coordVars, flowVars, pureVars>>

\* The assignment to the global of the function the thread is in
set_kwarg(op, kw) ==
    IF op = "read"
    THEN read_kwarg' = kw /\ UNCHANGED write_kwarg
    ELSE write_kwarg' = kw /\ UNCHANGED read_kwarg

\* Faulty variant: the default keyword used after the loop without being cached
ShimProbe_NoDefault(t) ==
    /\ spc[t] = "probe"
    /\ LET kw == candidates(sop[t])[cand_i[t]]
       IN /\ used_kw' = [used_kw EXCEPT ![t] = kw]
          /\ ncalls' = [ncalls EXCEPT ![t] = @ + 1]
          /\ \E outcome \in TransportOutcomes :
               LET r == client_call(kw, outcome)
               IN IF r = "TypeError"
                  THEN IF cand_i[t] < Len(candidates(sop[t]))
                       THEN /\ cand_i' = [cand_i EXCEPT ![t] = @ + 1]
                            /\ UNCHANGED <<read_kwarg, write_kwarg, shim_lock, spc, sres>>
                       ELSE /\ spc' = [spc EXCEPT ![t] = "fallback"]
                            /\ UNCHANGED <<read_kwarg, write_kwarg, cand_i, shim_lock, sres>>
                  ELSE /\ IF r = "TransportError"
                          THEN UNCHANGED <<read_kwarg, write_kwarg>>
                          ELSE set_kwarg(sop[t], kw)
                       /\ sres' = [sres EXCEPT ![t] = r]
                       /\ shim_lock' = NoThread
                       /\ spc' = [spc EXCEPT ![t] = "idle"]
                       /\ UNCHANGED cand_i
    /\ UNCHANGED <<accepted, sop, path, probe_calls, coordVars, flowVars, pureVars>>

\* Lines 40-50 and 62-70: one candidate.  A TypeError moves on to the next candidate
\* and, after the last, to the default; a call that returns caches the keyword; any
\* other exception leaves the function with the cache as it was
ShimProbe(t) ==
    /\ spc[t] = "probe"
    /\ LET kw == candidates(sop[t])[cand_i[t]]
       IN /\ used_kw' = [used_kw EXCEPT ![t] = kw]
          /\ ncalls' = [ncalls EXCEPT ![t] = @ + 1]
          /\ \E outcome \in TransportOutcomes :
               LET r == client_call(kw, outcome)
               IN IF r = "TypeError"
                  THEN IF cand_i[t] < Len(candidates(sop[t]))
                       THEN /\ cand_i' = [cand_i EXCEPT ![t] = @ + 1]
                            /\ UNCHANGED <<read_kwarg, write_kwarg, shim_lock, spc, sres>>
                       ELSE /\ set_kwarg(sop[t], "device_id")
                            /\ spc' = [spc EXCEPT ![t] = "fallback"]
                            /\ UNCHANGED <<cand_i, shim_lock, sres>>
                  ELSE /\ IF r = "TransportError"
                          THEN UNCHANGED <<read_kwarg, write_kwarg>>
                          ELSE set_kwarg(sop[t], kw)
                       /\ sres' = [sres EXCEPT ![t] = r]
                       /\ shim_lock' = NoThread
                       /\ spc' = [spc EXCEPT ![t] = "idle"]
                       /\ UNCHANGED cand_i
    /\ UNCHANGED <<accepted, sop, path, probe_calls, coordVars, flowVars, pureVars>>

\* Lines 51 and 71: the call with the default keyword
ShimFallback(t) ==
    /\ spc[t] = "fallback"
    /\ \E outcome \in TransportOutcomes :
         sres' = [sres EXCEPT ![t] = client_call("device_id", outcome)]
    /\ used_kw' = [used_kw EXCEPT ![t] = "device_id"]
    /\ ncalls' = [ncalls EXCEPT ![t] = @ + 1]
    /\ shim_lock' = NoThread
    /\ spc' = [spc EXCEPT ![t] = "idle"]
    /\ UNCHANGED <<read_kwarg, write_kwarg, accepted, sop, cand_i, path, probe_calls,
                   coordVars, flowVars, pureVars>>

\* The coordinator's own state before its first poll, write or shutdown
CoordUnused ==
    /\ lock = NoThread
    /\ pc = [t \in Threads |-> "idle"]
    /\ read_client = "none"
    /\ client_connected = FALSE
    /\ static_data = EmptyMap
    /\ static_data_read = FALSE
    /\ data = EmptyMap
    /\ span_i = 0
    /\ attempt = 0
    /\ wakeups = <<>>
    /\ span_failed = {}
    /\ static_span_failed = {}
    /\ poll_result = "none"
    /\ wkey = None
    /\ wval = 0
    /\ wresult = "none"
    /\ call = NoCall

\* The coordinator at rest, while the shim is exercised by itself
CoordIdle ==
    /\ software_version = SOFTWARE_VERSION_1
    /\ slave_id = coordinator_slave_id(DEFAULT_SLAVE_ID)
    /\ device = (1018 :> 183) @@ (1244 :> 80) @@ (1208 :> 3) @@ (1185 :> 2) @@ (1186 :> 3)
                @@ (1180 :> 45)
    /\ CoordUnused

\* The installed pymodbus accepts one of the keywords, or none of them
InitShim ==
    /\ accepted \in {"device_id", "slave", "unit", None}
    /\ ShimIdle
    /\ CoordIdle
    /\ FlowIdle
    /\ PureIdle

NextShim ==
    \E t \in ShimThreads :
        \/ ShimCall(t)
        \/ ShimFast(t)
        \/ ShimLock(t)
        \/ ShimLocked(t)
        \/ ShimProbe(t)
        \/ ShimFallback(t)

SpecShim == InitShim /\ [][NextShim]_vars

-----------------------------------------------------------------------------
(* coordinator.py: the threads under fair scheduling *)

\* The coordinator under fair scheduling.  A thread inside the with block goes on:
\* connect, read and write are blocking calls on a socket with a timeout, so each
\* returns or raises and the thread takes its next step (weak fairness).  A thread
\* waiting at `with self._lock` gets the lock if it is free again and again (strong
\* fairness): the poll cycles are scan_interval apart and the writes come one at a
\* time from the event loop, so the lock is not handed to and fro between the others
\* for ever.  When an update is due and when an entity writes is up to the
\* environment: no fairness on PollCall, WriteCall and the shutdown job's start.
\*
\* Weak fairness of the three reading steps is written out, WF_vars(A) being
\* <>[](ENABLED <<A>>_vars) => []<><<A>>_vars: each of them is enabled exactly at its
\* position of the poll thread, which it always changes or moves on.
Fairness ==
    /\ SF_vars(PollStart)
    /\ SF_vars(WriteAcquire)
    /\ WF_vars(PollConnect)
    /\ <>[](pc["poll"] = "warmup") => []<><<PollWarmup>>_vars
    /\ <>[](pc["poll"] = "static") => []<><<PollStaticRead>>_vars
    /\ <>[](pc["poll"] = "dynamic") => []<><<PollDynamicRead>>_vars
    /\ WF_vars(WriteConnect)
    /\ WF_vars(WriteIssue)
    /\ WF_vars(ShutdownClose)

\* A 1.x coordinator before its first poll, with the modbus library of Init
InitFair ==
    /\ CoordIdle
    /\ accepted = "device_id"
    /\ ShimIdle
    /\ FlowIdle
    /\ PureIdle

SpecFair == InitFair /\ [][Next]_vars /\ Fairness

-----------------------------------------------------------------------------
(* coordinator.py, pymodbus_compat.py and config_flow.py: the two locks.  The poll
   cycle, a write and the shutdown job are followed from lock operation to lock
   operation, with each call into pymodbus_compat run step by step inside them; the
   detector of a setup flow calls pymodbus_compat at the same time.  Of the two
   threads of the shim, t1 is the coordinator thread that is inside a shim call (one
   at a time: the calls are made under the coordinator's lock) and t2 is the
   executor thread of validate_connection. *)

CoordinatorCaller == "t1"
DetectorCaller == "t2"

\* What the steps of this section leave alone
lockFrame == <<software_version, slave_id, device, read_client, client_connected,
               static_data, static_data_read, data, span_i, attempt, wakeups,
               span_failed, static_span_failed, poll_result, wkey, wval, wresult, call>>

\* _read_modbus_data, write_register or _close called: the thread arrives at
\* `with self._lock` (coordinator.py lines 145, 278 and 321)
LockArrive(t) ==
    /\ pc[t] = "idle"
    /\ pc' = [pc EXCEPT ![t] = "lock"]
    /\ UNCHANGED <<lock, lockFrame, shimVars, flowVars, pureVars>>

\* The thread enters the with block
LockAcquire(t) ==
    /\ pc[t] = "lock"
    /\ lock = NoThread
    /\ lock' = t
    /\ pc' = [pc EXCEPT ![t] = "held"]
    /\ UNCHANGED <<lockFrame, shimVars, flowVars, pureVars>>

\* coordinator.py lines 369 and 288-289, pymodbus_compat.py lines 32-34 and 56-58:
\* inside the with block the poll cycle calls read_holding_registers of the shim and
\* the write calls write_register of the shim
LockedShimCall(t) ==
    /\ t \in {"poll", "writer"}
    /\ pc[t] = "held"
    /\ spc[CoordinatorCaller] = "idle"
    /\ pc' = [pc EXCEPT ![t] = "in_shim"]
    /\ LET op == IF t = "poll" THEN "read" ELSE "write"
       IN /\ sop' = [sop EXCEPT ![CoordinatorCaller] = op]
          /\ IF cached_kwarg(op) # None
             THEN /\ spc' = [spc EXCEPT ![CoordinatorCaller] = "fast"]
                  /\ path' = [path EXCEPT ![CoordinatorCaller] = "fast"]
             ELSE /\ spc' = [spc EXCEPT ![CoordinatorCaller] = "wait"]
                  /\ path' = [path EXCEPT ![CoordinatorCaller] = "none"]
    /\ ncalls' = [ncalls EXCEPT ![CoordinatorCaller] = 0]
    /\ used_kw' = [used_kw EXCEPT ![CoordinatorCaller] = None]
    /\ sres' = [sres EXCEPT ![CoordinatorCaller] = "running"]
    /\ cand_i' = [cand_i EXCEPT ![CoordinatorCaller] = 0]
    /\ UNCHANGED <<lock, lockFrame, read_kwarg, write_kwarg, shim_lock, accepted,
                   probe_calls, flowVars, pureVars>>

\* The shim call returns or raises into the with block (the exception is caught at
\* coordinator.py line 391 for a read and leaves the block for a write)
LockedShimReturn(t) ==
    /\ pc[t] = "in_shim"
    /\ spc[CoordinatorCaller] = "idle"
    /\ pc' = [pc EXCEPT ![t] = "held"]
    /\ UNCHANGED <<lock, lockFrame, shimVars, flowVars, pureVars>>

\* The with block is left, by its end, a return or an exception (coordinator.py
\* lines 160, 265-272, 280, 303 and 323)
LockRelease(t) ==
    /\ pc[t] = "held"
    /\ lock' = NoThread
    /\ pc' = [pc EXCEPT ![t] = "idle"]
    /\ UNCHANGED <<lockFrame, shimVars, flowVars, pureVars>>

\* config_flow.py lines 116-118 and 300-302: a read of the detector through the shim
DetectorShimCall ==
    /\ ShimCall(DetectorCaller)
    /\ sop'[DetectorCaller] = "read"

\* The steps inside pymodbus_compat, for either caller
ShimStep(s) ==
    \/ ShimFast(s)
    \/ ShimLock(s)
    \/ ShimLocked(s)
    \/ ShimProbe(s)
    \/ ShimFallback(s)

InitLocks ==
    /\ accepted \in {"device_id", "slave", "unit", None}
    /\ ShimIdle
    /\ CoordIdle
    /\ FlowIdle
    /\ PureIdle

NextLocks ==
    \/ \E t \in Threads : LockArrive(t)
    \/ \E t \in Threads : LockAcquire(t)
    \/ \E t \in Threads : LockedShimCall(t)
    \/ \E t \in Threads : LockedShimReturn(t)
    \/ \E t \in Threads : LockRelease(t)
    \/ DetectorShimCall
    \/ \E s \in ShimThreads : ShimStep(s)

SpecLocks == InitLocks /\ [][NextLocks]_vars

-----------------------------------------------------------------------------
(* config_flow.py: the setup flow and its firmware detector *)

\* Line 137: for attempt in range(5)
WARMUP_ATTEMPTS == 5

\* Lines 114-131: _read_register, the first word of a good answer or None
read_register(result) ==
    IF result.kind # "result" THEN NoRead
    ELSE IF Len(result.registers) = 0 THEN NoRead
    ELSE [ok |-> TRUE, value |-> result.registers[1]]

\* Lines 171-174: the version word is plausible and raw * 0.01 is inside the band
sw_valid(sw, detection_set) ==
    /\ sw.ok
    /\ 0 < sw.value
    /\ sw.value < 10000
    /\ detection_set.sw_min <= sw.value
    /\ sw.value <= detection_set.sw_max

\* Faulty variant: a family confirmed by one of its two registers
consensus_either(sw, vm, detection_set) == sw_valid(sw, detection_set) \/ vm.ok

\* Lines 187-200: sw_valid and vm_readable
consensus(sw, vm, detection_set) == sw_valid(sw, detection_set) /\ vm.ok

\* Lines 201-204
version_of(firmware) ==
    IF firmware = "2.xx" THEN SOFTWARE_VERSION_2 ELSE SOFTWARE_VERSION_1

\* Lines 231-236: the heater-type address of the confirmed family
heater_address(version) == IF version = SOFTWARE_VERSION_2 THEN 1127 ELSE 1240

\* The addresses the setup flow reads
FlowAddresses == {1001, 1015, 1125, 1018, 1244, 1127, 1240, 1208}

\* Controllers the flow may meet: version words on both sides of each band's ends
FlowDevices ==
    {[a \in FlowAddresses |->
         CASE a = 1015 -> sw2
           [] a = 1018 -> sw1
           [] a = 1125 -> 112
           [] a = 1244 -> 80
           [] a \in {1127, 1240} -> h
           [] OTHER -> 3] :
       sw2 \in {199, 200, 299, 300}, sw1 \in {99, 100, 199, 200}, h \in {1, 3}}

\* Lines 335-359 and 66: the operator submits the user form
FlowSubmit ==
    /\ fpc = "user_form"
    /\ fpc' = "connect"
    /\ flow_client' = "open"
    /\ errors' = None
    /\ warm_n' = 0
    /\ det_i' = 0
    /\ raw_sw' = NoRead
    /\ raw_vm' = NoRead
    /\ detected_sw_version' = SOFTWARE_VERSION_UNKNOWN
    /\ detected_heater_type' = HEATER_TYPE_UNKNOWN
    /\ probed' = <<>>
    /\ UNCHANGED <<detection_failed, manual_input, entry, coordVars, shimVars, pureVars>>

\* Lines 68-77 and 373-377: connect; refused is CannotConnect, a raise is "unknown"
FlowConnect ==
    /\ fpc = "connect"
    /\ \E outcome \in ConnectOutcomes :
         CASE outcome = "ok" ->
                /\ fpc' = "warmup"
                /\ UNCHANGED <<flow_client, errors>>
           [] outcome = "refused" ->
                /\ fpc' = "user_form"
                /\ flow_client' = "closed"
                /\ errors' = "cannot_connect"
           [] outcome = "raise" ->
                /\ fpc' = "user_form"
                /\ errors' = "unknown"
                /\ UNCHANGED flow_client
    /\ UNCHANGED <<warm_n, det_i, raw_sw, raw_vm, detected_sw_version,
                   detected_heater_type, detection_failed, manual_input, entry, probed,
                   coordVars, shimVars, pureVars>>

\* Lines 133-147: one warm-up read of register 1001
FlowWarmup ==
    /\ fpc = "warmup"
    /\ \E outcome \in ReadOutcomes :
         LET warmup_value == read_register(response(outcome, 1001, 1))
         IN IF warmup_value.ok \/ warm_n + 1 = WARMUP_ATTEMPTS
            THEN /\ fpc' = "probe_sw"
                 /\ det_i' = 1
                 /\ warm_n' = IF warmup_value.ok THEN warm_n ELSE warm_n + 1
            ELSE /\ warm_n' = warm_n + 1
                 /\ UNCHANGED <<fpc, det_i>>
    /\ probed' = Append(probed, FlowRead("warmup", 1001))
    /\ UNCHANGED <<flow_client, raw_sw, raw_vm, detected_sw_version,
                   detected_heater_type, detection_failed, errors, manual_input, entry,
                   coordVars, shimVars, pureVars>>

\* Lines 150-162: the version register of the detection set
FlowReadVersion ==
    /\ fpc = "probe_sw"
    /\ \E outcome \in ReadOutcomes :
         raw_sw' = read_register(response(outcome, detection_sets[det_i].sw_address, 1))
    /\ fpc' = "probe_vm"
    /\ probed' = Append(probed, FlowRead("version", detection_sets[det_i].sw_address))
    /\ UNCHANGED <<flow_client, warm_n, det_i, raw_vm, detected_sw_version,
                   detected_heater_type, detection_failed, errors, manual_input, entry,
                   coordVars, shimVars, pureVars>>

\* Faulty variant: a detector that settles on the first family when none is confirmed
FlowReadMachine_Guess ==
    /\ fpc = "probe_vm"
    /\ \E outcome \in ReadOutcomes :
         LET detection_set == detection_sets[det_i]
             vm == read_register(response(outcome, detection_set.vm_address, 1))
         IN /\ raw_vm' = vm
            /\ IF consensus(raw_sw, vm, detection_set)
               THEN /\ detected_sw_version' = version_of(detection_set.firmware)
                    /\ fpc' = "heater"
                    /\ UNCHANGED <<det_i, flow_client, detection_failed>>
               ELSE IF det_i < Len(detection_sets)
               THEN /\ det_i' = det_i + 1
                    /\ fpc' = "probe_sw"
                    /\ UNCHANGED <<detected_sw_version, flow_client, detection_failed>>
               ELSE /\ detected_sw_version' = SOFTWARE_VERSION_1
                    /\ fpc' = "heater"
                    /\ UNCHANGED <<det_i, flow_client, detection_failed>>
    /\ probed' = Append(probed, FlowRead("machine", detection_sets[det_i].vm_address))
    /\ UNCHANGED <<warm_n, raw_sw, detected_heater_type, errors, manual_input, entry,
                   coordVars, shimVars, pureVars>>

\* Lines 164-227: the machine-type register and the verdict on the detection set;
\* after the last set without a verdict, lines 284-289 and 362-365: validate_connection
\* returns None and the flow shows the manual_version form
FlowReadMachine ==
    /\ fpc = "probe_vm"
    /\ \E outcome \in ReadOutcomes :
         LET detection_set == detection_sets[det_i]
             vm == read_register(response(outcome, detection_set.vm_address, 1))
         IN /\ raw_vm' = vm
            /\ IF consensus(raw_sw, vm, detection_set)
               THEN /\ detected_sw_version' = version_of(detection_set.firmware)
                    /\ fpc' = "heater"
                    /\ UNCHANGED <<det_i, flow_client, detection_failed>>
               ELSE IF det_i < Len(detection_sets)
               THEN /\ det_i' = det_i + 1
                    /\ fpc' = "probe_sw"
                    /\ UNCHANGED <<detected_sw_version, flow_client, detection_failed>>
               ELSE /\ flow_client' = "closed"
                    /\ detection_failed' = TRUE
                    /\ fpc' = "manual_form"
                    /\ UNCHANGED <<det_i, detected_sw_version>>
    /\ probed' = Append(probed, FlowRead("machine", detection_sets[det_i].vm_address))
    /\ UNCHANGED <<warm_n, raw_sw, detected_heater_type, errors, manual_input, entry,
                   coordVars, shimVars, pureVars>>

\* Lines 229-270: the heater-type register of the confirmed family, None by default
FlowReadHeater ==
    /\ fpc = "heater"
    /\ \E outcome \in ReadOutcomes :
         LET raw_heater == read_register(
                 response(outcome, heater_address(detected_sw_version), 1))
         IN detected_heater_type' =
               IF raw_heater.ok /\ raw_heater.value \in
                     {HEATER_TYPE_WATER, HEATER_TYPE_ELECTRIC, HEATER_TYPE_NONE}
               THEN raw_heater.value
               ELSE HEATER_TYPE_NONE
    /\ fpc' = "test"
    /\ probed' = Append(probed, FlowRead("heater", heater_address(detected_sw_version)))
    /\ UNCHANGED <<flow_client, warm_n, det_i, raw_sw, raw_vm, detected_sw_version,
                   detection_failed, errors, manual_input, entry, coordVars, shimVars, pureVars>>

\* Line 305: not result.isError(), and False for None or an exception
read_test(result) == result.kind = "result"

\* Lines 293-321 and 367-374: the test read of the power register; a good answer
\* creates the entry with what was detected, anything else is CannotConnect
FlowReadTest ==
    /\ fpc = "test"
    /\ \E outcome \in ReadOutcomes :
         LET power_register == get_register_definition("power",
                                   get_registers_for_version(detected_sw_version)).definition
         IN IF read_test(response(outcome, power_register.address, 1))
            THEN /\ entry' = [created |-> TRUE,
                              software_version |-> detected_sw_version,
                              heater_type |-> detected_heater_type,
                              slave_id |-> DEFAULT_SLAVE_ID]
                 /\ fpc' = "created"
                 /\ UNCHANGED errors
            ELSE /\ errors' = "cannot_connect"
                 /\ fpc' = "user_form"
                 /\ UNCHANGED entry
    /\ flow_client' = "closed"
    /\ probed' = Append(probed, FlowRead("test",
                     get_register_definition("power",
                         get_registers_for_version(detected_sw_version)).definition.address))
    /\ UNCHANGED <<warm_n, det_i, raw_sw, raw_vm, detected_sw_version,
                   detected_heater_type, detection_failed, manual_input, coordVars,
                   shimVars, pureVars>>

\* Lines 388-400: the operator submits the manual_version form
FlowManualSubmit ==
    /\ fpc = "manual_form"
    /\ \E version \in {SOFTWARE_VERSION_1, SOFTWARE_VERSION_2},
          heater \in {HEATER_TYPE_NONE, HEATER_TYPE_WATER, HEATER_TYPE_ELECTRIC} :
         /\ manual_input' = [submitted |-> TRUE, software_version |-> version,
                             heater_type |-> heater]
         /\ entry' = [created |-> TRUE, software_version |-> version,
                      heater_type |-> heater, slave_id |-> DEFAULT_SLAVE_ID]
    /\ fpc' = "created"
    /\ UNCHANGED <<flow_client, warm_n, det_i, raw_sw, raw_vm, detected_sw_version,
                   detected_heater_type, detection_failed, errors, probed, coordVars,
                   shimVars, pureVars>>

\* A new flow on a controller the operator points it at
InitFlow ==
    /\ software_version = SOFTWARE_VERSION_1
    /\ slave_id = coordinator_slave_id(DEFAULT_SLAVE_ID)
    /\ device \in FlowDevices
    /\ CoordUnused
    /\ accepted = "device_id"
    /\ ShimIdle
    /\ FlowIdle
    /\ PureIdle

NextFlow ==
    \/ FlowSubmit
    \/ FlowConnect
    \/ FlowWarmup
    \/ FlowReadVersion
    \/ FlowReadMachine
    \/ FlowReadHeater
    \/ FlowReadTest
    \/ FlowManualSubmit

SpecFlow == InitFlow /\ [][NextFlow]_vars

\* __init__.py line 31 and coordinator.py lines 88-106: the entry the flow created is
\* set up, and the coordinator takes its unit id and firmware family from it
SetupEntry ==
    /\ fpc = "created"
    /\ entry.created
    /\ fpc' = "loaded"
    /\ slave_id' = coordinator_slave_id(entry.slave_id)
    /\ software_version' = entry.software_version
    /\ UNCHANGED <<device, lock, pc, read_client, client_connected, static_data,
                   static_data_read, data, span_i, attempt, wakeups, span_failed,
                   static_span_failed, poll_result, wkey, wval, wresult, call>>
    /\ UNCHANGED <<flow_client, warm_n, det_i, raw_sw, raw_vm, detected_sw_version,
                   detected_heater_type, detection_failed, errors, manual_input, entry,
                   probed, shimVars, pureVars>>

\* The setup flow and, for the entry it creates, the coordinator's construction
NextSetup ==
    \/ NextFlow
    \/ SetupEntry

SpecSetup == InitFlow /\ [][NextSetup]_vars

-----------------------------------------------------------------------------
(* _build_read_ranges applied by itself *)

\* Addresses the keys of a register list may have: a run, and one address apart
RangeAddresses == {1020, 1021, 1022, 1023, 1024, 1026}

\* Longest register list drawn
MaxKeys == 4

\* Values of max_registers drawn: short limits that cut a run, and the default
RangeLimits == {1, 2, 3, MAX_REGISTERS}

\* Register lists as the addresses of their keys, in list order
KeyLists == UNION {[1..n -> RangeAddresses] : n \in 0..MaxKeys}

\* coordinator.py lines 170-172 and 199-201: address -> the positions of the keys
\* that have it (setdefault(address, []).append(definition))
grouped(key_addresses) ==
    [a \in {key_addresses[i] : i \in 1..Len(key_addresses)} |->
        {i \in 1..Len(key_addresses) : key_addresses[i] = a}]

InitRanges ==
    /\ CoordIdle
    /\ accepted = "device_id"
    /\ ShimIdle
    /\ FlowIdle
    /\ applied = "none"
    /\ arguments \in [key_addresses : KeyLists, max_registers : RangeLimits]
    /\ returned = <<>>

\* _build_read_ranges(address_to_definitions, max_registers)
ApplyBuildReadRanges ==
    /\ applied = "none"
    /\ applied' = "_build_read_ranges"
    /\ returned' = build_read_ranges(DOMAIN grouped(arguments.key_addresses),
                                     arguments.max_registers)
    /\ UNCHANGED <<arguments, coordVars, shimVars, flowVars>>

NextRanges == ApplyBuildReadRanges

SpecRanges == InitRanges /\ [][NextRanges]_vars

-----------------------------------------------------------------------------
(* The decode of a word read and the encode of a value written, by themselves *)

\* The address of the register read or written
CodecAddress == 1020

\* Raw words drawn: every 16-bit word
CodecWords == 0..65535

\* Scales drawn: 1, 0.5, 0.1 and 0.01, in hundredths
CodecScales == {100, 50, 10, 1}

\* Engineering values drawn for a write, in hundredths: -3.00 .. 22.00
CodecValues == -300..2200

\* Register maps with one key, or with two keys that share the address and, as the
\* keys of one address in const.py do, the scale and the optional flag
CodecCatalogs ==
    {[k \in ks |-> RegisterDefinition(CodecAddress, scale, TRUE, optional)] :
        ks \in {{"a"}, {"a", "b"}}, scale \in CodecScales, optional \in BOOLEAN}

\* The register list of such a map, in list order
codec_keys(catalog) == IF "b" \in DOMAIN catalog THEN <<"a", "b">> ELSE <<"a">>

InitCodec ==
    /\ software_version = SOFTWARE_VERSION_1
    /\ slave_id = coordinator_slave_id(DEFAULT_SLAVE_ID)
    /\ CoordUnused
    /\ accepted = "device_id"
    /\ ShimIdle
    /\ FlowIdle
    /\ applied = "none"
    /\ returned = <<>>
    /\ \E op \in {"read_static", "read_dynamic", "write"}, catalog \in CodecCatalogs :
         IF op = "write"
         THEN /\ device = (CodecAddress :> 0)
              /\ DOMAIN catalog = {"a"}
              /\ \E value \in CodecValues :
                   arguments = [op |-> op, catalog |-> catalog, value |-> value]
         ELSE /\ device \in [{CodecAddress} -> CodecWords]
              /\ arguments = [op |-> op, catalog |-> catalog, value |-> 0]

\* Lines 174-188: a static span of one register, read and stored
ApplyReadStatic ==
    /\ applied = "none"
    /\ arguments.op = "read_static"
    /\ LET block == read_register_block(response("ok", CodecAddress, 1), 1)
       IN returned' = store_static_in(EmptyMap, CodecAddress, block.words,
                                      arguments.catalog, codec_keys(arguments.catalog))
    /\ applied' = "read_static"
    /\ UNCHANGED <<arguments, coordVars, shimVars, flowVars>>

\* Lines 208-230: a dynamic span of one register, read and stored
ApplyReadDynamic ==
    /\ applied = "none"
    /\ arguments.op = "read_dynamic"
    /\ LET block == read_register_block(response("ok", CodecAddress, 1), 1)
       IN returned' = store_dynamic_in(EmptyMap, CodecAddress, block.words,
                                       arguments.catalog, codec_keys(arguments.catalog))
    /\ applied' = "read_dynamic"
    /\ UNCHANGED <<arguments, coordVars, shimVars, flowVars>>

\* Lines 285-289: the raw value write_register hands to the shim
ApplyToRaw ==
    /\ applied = "none"
    /\ arguments.op = "write"
    /\ \E raw_value \in to_raw_float(arguments.catalog["a"], arguments.value) :
         returned' = [raw_value |-> raw_value]
    /\ applied' = "write"
    /\ UNCHANGED <<arguments, coordVars, shimVars, flowVars>>

NextCodec ==
    \/ ApplyReadStatic
    \/ ApplyReadDynamic
    \/ ApplyToRaw

SpecCodec == InitCodec /\ [][NextCodec]_vars

-----------------------------------------------------------------------------
(* number.py: a number entity set to a value of its grid, down to the raw value that
   write_register hands to the shim *)

\* The entries of _build_registers_v1 the number platform writes (const.py lines
\* 153-167, 174-182 and 228-241), in the order of the display
number_registers ==
    dict_display(<<
        <<"exhaust_temp_setpoint",  RegisterDefinition(1060, 10, TRUE, FALSE)>>,
        <<"supply_temp_setpoint",   RegisterDefinition(1065, 10, TRUE, FALSE)>>,
        <<"home_speed",             RegisterDefinition(1104, 100, TRUE, FALSE)>>,
        <<"away_speed",             RegisterDefinition(1105, 100, TRUE, FALSE)>>,
        <<"boost_setting",          RegisterDefinition(1117, 100, TRUE, FALSE)>>,
        <<"boost_timer",            RegisterDefinition(1202, 100, TRUE, FALSE)>>,
        <<"overpressure_timer",     RegisterDefinition(1204, 100, TRUE, FALSE)>>,
        <<"summer_mode_temp_limit", RegisterDefinition(1078, 10, TRUE, FALSE)>>,
        <<"filter_interval",        RegisterDefinition(1085, 100, TRUE, FALSE)>>,
        <<"overpressure_timer",     RegisterDefinition(1204, 100, FALSE, FALSE)>> >>)

\* number.py lines 39-59 with the class attributes of lines 100-196: each entity's
\* key and its native minimum, maximum and step, in hundredths
NumberEntities ==
    { [data_key |-> "home_speed",             min |-> 0,    max |-> 400,   step |-> 100],
      [data_key |-> "away_speed",             min |-> 0,    max |-> 400,   step |-> 100],
      [data_key |-> "boost_setting",          min |-> 200,  max |-> 400,   step |-> 100],
      [data_key |-> "exhaust_temp_setpoint",  min |-> 1800, max |-> 2600,  step |-> 50],
      [data_key |-> "supply_temp_setpoint",   min |-> 1500, max |-> 2500,  step |-> 50],
      [data_key |-> "summer_mode_temp_limit", min |-> 1500, max |-> 3000,  step |-> 50],
      [data_key |-> "filter_interval",        min |-> 0,    max |-> 200,   step |-> 100],
      [data_key |-> "boost_timer",            min |-> 0,    max |-> 30000, step |-> 100],
      [data_key |-> "overpressure_timer",     min |-> 0,    max |-> 30000, step |-> 100] }

\* The values the frontend lets the operator give an entity: its step grid
step_grid(entity) ==
    {entity.min + k * entity.step : k \in 0..((entity.max - entity.min) \div entity.step)}

\* int(value) of line 93, a whole number again in hundredths
py_int(value) == trunc_div(value, 100) * 100

InitNumber ==
    /\ CoordIdle
    /\ accepted = "device_id"
    /\ ShimIdle
    /\ FlowIdle
    /\ applied = "none"
    /\ returned = <<>>
    /\ \E entity \in NumberEntities :
         \E value \in step_grid(entity) :
            arguments = [data_key |-> entity.data_key, value |-> value]

\* number.py lines 90-97 and coordinator.py lines 276 and 285: the entity passes
\* int(value) to async_write_register, and write_register encodes what it was passed
ApplySetNativeValue ==
    /\ applied = "none"
    /\ LET passed == py_int(arguments.value)
           definition == get_register_definition(arguments.data_key,
                                                 number_registers).definition
       IN \E raw_value \in to_raw_float(definition, passed) :
            returned' = [key |-> arguments.data_key, value |-> passed,
                         address |-> definition.address, raw_value |-> raw_value]
    /\ applied' = "async_set_native_value"
    /\ UNCHANGED <<arguments, coordVars, shimVars, flowVars>>

NextNumber == ApplySetNativeValue

SpecNumber == InitNumber /\ [][NextNumber]_vars

\* ---------------------------------------------------------------------------
\* One span of the coordinator, read and stored: _read_register_block with the
\* store that follows it, over every way the transport can answer
\* ---------------------------------------------------------------------------

\* The lengths of the spans read
SpanCounts == {1, 2, 3}

\* The words the device holds at the addresses of the span
SpanWords == {3, 40000, 65535}

\* A register map with one definition at each address of the longest span
span_registers ==
    [k \in {"a", "b", "c"} |->
        CASE k = "a" -> RegisterDefinition(CodecAddress, 100, FALSE, FALSE)
          [] k = "b" -> RegisterDefinition(CodecAddress + 1, 10, FALSE, FALSE)
          [] k = "c" -> RegisterDefinition(CodecAddress + 2, 1, FALSE, FALSE)]

\* The register list of that map, in list order
span_register_list == <<"a", "b", "c">>

InitBlock ==
    /\ software_version = SOFTWARE_VERSION_1
    /\ slave_id = coordinator_slave_id(DEFAULT_SLAVE_ID)
    /\ CoordUnused
    /\ accepted = "device_id"
    /\ ShimIdle
    /\ FlowIdle
    /\ applied = "none"
    /\ returned = <<>>
    /\ device \in [CodecAddress..(CodecAddress + 2) -> SpanWords]
    /\ \E op \in {"read_static", "read_dynamic"}, count \in SpanCounts,
          outcome \in ReadOutcomes :
         arguments = [op |-> op, start_addr |-> CodecAddress, count |-> count,
                      outcome |-> outcome]

\* Lines 174-188: a static span read; a block of None is skipped and stores nothing
ApplyStaticSpan ==
    /\ applied = "none"
    /\ arguments.op = "read_static"
    /\ LET block == read_register_block(
                        response(arguments.outcome, arguments.start_addr, arguments.count),
                        arguments.count)
       IN returned' = [block |-> block,
                       data |-> IF block.ok
                                THEN store_static_in(EmptyMap, arguments.start_addr,
                                                     block.words, span_registers, span_register_list)
                                ELSE EmptyMap]
    /\ applied' = "read_static"
    /\ UNCHANGED <<arguments, coordVars, shimVars, flowVars>>

\* Lines 208-230: a dynamic span read; a block of None stores nothing
ApplyDynamicSpan ==
    /\ applied = "none"
    /\ arguments.op = "read_dynamic"
    /\ LET block == read_register_block(
                        response(arguments.outcome, arguments.start_addr, arguments.count),
                        arguments.count)
       IN returned' = [block |-> block,
                       data |-> IF block.ok
                                THEN store_dynamic_in(EmptyMap, arguments.start_addr,
                                                      block.words, span_registers, span_register_list)
                                ELSE EmptyMap]
    /\ applied' = "read_dynamic"
    /\ UNCHANGED <<arguments, coordVars, shimVars, flowVars>>

NextBlock ==
    \/ ApplyStaticSpan
    \/ ApplyDynamicSpan

SpecBlock == InitBlock /\ [][NextBlock]_vars

\* C34 (as claimed): the raw value written for an entity set to v is round(v / scale)
\* of the entity's register, for every v of the entity's step grid.
C34_NumberWritesScaledValue ==
    applied = "async_set_native_value" =>
        LET definition == number_registers[arguments.data_key]
        IN /\ returned.key = arguments.data_key
           /\ returned.address = definition.address
           /\ returned.raw_value \in to_raw_float(definition, arguments.value)

-----------------------------------------------------------------------------
(* const.py by itself: get_registers_for_version and get_register_definition applied
   to version strings and keys drawn from bounded sets *)

\* Characters of the version strings drawn
VersionChars == {"0", "1", "2", "3", ".", "x"}

\* Longest version string drawn
MaxVersionLen == 3

\* Version strings drawn: "1.x" and "2.x" of the setup flow, and whatever else a
\* caller can pass
VersionStrings == UNION {[1..n -> VersionChars] : n \in 0..MaxVersionLen}

\* Keys looked up: those of the map and one that is not in it
LookupKeys == DOMAIN build_registers_v1 \cup {"fan_boost"}

InitCatalog ==
    /\ CoordIdle
    /\ accepted = "device_id"
    /\ ShimIdle
    /\ FlowIdle
    /\ applied = "none"
    /\ returned = <<>>
    /\ \E version \in VersionStrings, key \in LookupKeys :
         arguments = [version |-> version, key |-> key]

\* Lines 285-298: the map for a version string, and the builder that made it
ApplyGetRegistersForVersion ==
    /\ applied = "none"
    /\ applied' = "get_registers_for_version"
    /\ returned' = [builder |-> selected_builder(arguments.version),
                    registers |-> get_registers_for_version(arguments.version)]
    /\ UNCHANGED <<arguments, coordVars, shimVars, flowVars>>

\* coordinator.py line 111 and lines 359-361: the lookup of a key in the map of the
\* version
ApplyGetRegisterDefinition ==
    /\ applied = "none"
    /\ applied' = "get_register_definition"
    /\ returned' = get_register_definition(arguments.key,
                                           get_registers_for_version(arguments.version))
    /\ UNCHANGED <<arguments, coordVars, shimVars, flowVars>>

NextCatalog ==
    \/ ApplyGetRegistersForVersion
    \/ ApplyGetRegisterDefinition

SpecCatalog == InitCatalog /\ [][NextCatalog]_vars

-----------------------------------------------------------------------------
(* Properties of the coordinator, checked under Spec *)

\* The positions at which a thread holds the device: between taking the lock and
\* leaving the with block
DeviceIO(t) ==
    CASE t = "poll"     -> pc["poll"] \in {"connect", "warmup", "static", "dynamic"}
      [] t = "writer"   -> pc["writer"] \in {"connect", "write"}
      [] t = "shutdown" -> pc["shutdown"] = "close"

\* The poll thread is outside a cycle: data is the map last published, if any
BetweenCycles == pc["poll"] \in {"idle", "lock"}

\* C1: at most one of the poll cycle, the write and the shutdown job is doing device
\* I/O at a time: a thread inside its lock-protected region holds the coordinator
\* lock, no two threads are inside at once, and whenever a thread has just made a
\* transport call no other thread is between its first and last call.
C1_OneThreadDoesIO ==
    /\ \A t, u \in Threads : DeviceIO(t) /\ DeviceIO(u) => t = u
    /\ \A t \in Threads : DeviceIO(t) => lock = t
    /\ call.by # NoThread => \A u \in Threads \ {call.by} : ~DeviceIO(u)

\* C1 witness: a write waits for the lock while the poll cycle is reading
C1_Witness ==
    /\ pc["writer"] = "lock"
    /\ pc["poll"] = "dynamic"
    /\ call.by = "poll"
    /\ call.op = "read_dynamic"

C3_FlagOnlyAfterSuccess == static_data_read => static_span_failed = {}

\* The polled keys a dynamic span covers
span_keys(i) ==
    {k \in key_set(poll_registers) :
        registers[k].address \in poll_spans[i][1]..(poll_spans[i][1] + poll_spans[i][2] - 1)}

\* A 16-bit word as a signed number
signed(w) == IF w > 32767 THEN w - 65536 ELSE w

C5_NoDataRaises ==
    (/\ pc["poll"] = "idle"
     /\ span_failed = 1..Len(poll_spans)
     /\ span_failed # {}
     /\ static_data = EmptyMap) => poll_result = "UpdateFailed"

C7_ReadConnectionPerCycle ==
    /\ lock # "poll" => read_client \in {"none", "closed"}
    /\ pc["poll"] = "connect" => read_client = "created"
    /\ pc["poll"] \in {"warmup", "static", "dynamic"} => read_client = "connected"
    /\ read_client \in {"created", "connected"} => lock = "poll"

\* C7 witness: the cycle after a published one, with its new client
C7_Witness ==
    /\ pc["poll"] = "connect"
    /\ read_client = "created"
    /\ poll_result = "running"
    /\ static_data_read
    /\ data # EmptyMap

\* C8: write_register with a catalog key ends in True or False, never in an
\* exception: True exactly when the single-register write was made, on an open
\* connection, and returned a non-error response; False when the connect is refused
\* or raises and when the write raises or returns an error.
C8_WriteReturnsBool ==
    /\ wresult \in {"none", "running", "True", "False", "KeyError"}
    /\ pc["writer"] = "write" => client_connected /\ lock = "writer"
    /\ (pc["writer"] = "idle" /\ call.by = "writer") =>
          /\ wresult \in {"True", "False"}
          /\ wresult = "True" <=> (call.op = "write" /\ call.outcome = "ok")
          /\ call.op = "connect" => call.outcome \in {"refused", "raise"}

\* C8 witness: the transport raised in the write and the call returned False
C8_Witness ==
    /\ pc["writer"] = "idle"
    /\ call.by = "writer"
    /\ call.op = "write"
    /\ call.outcome = "raise"
    /\ wresult = "False"

\* C9: a key that is not in the active catalog makes get_register_definition raise
\* KeyError, and write_register ends in that KeyError without having taken the lock
\* or made a connect or transport call; a write in progress always has a catalog key.
C9_UnknownKeyRaises ==
    /\ \A k \in WriteKeys \ DOMAIN registers :
          get_register_definition(k, registers).raised = "KeyError"
    /\ wkey # None => wkey \in DOMAIN registers
    /\ wresult = "KeyError" =>
          /\ pc["writer"] = "idle"
          /\ lock # "writer"
          /\ call.by # "writer"

\* C9 witness: the KeyError came while the poll cycle held the lock
C9_Witness ==
    /\ wresult = "KeyError"
    /\ lock = "poll"
    /\ ~client_connected

\* C28: a wake-up read that fails or raises does not end the cycle: the step that
\* made it leaves the poll thread holding the lock with its client connected, at the
\* first static span when the static read is pending and at the first dynamic span
\* otherwise, and no step of a cycle past its connect ends it in UpdateFailed.
C28_WarmupNonFatal ==
    [][/\ (call'.op = "wakeup" /\ call'.outcome # "ok") =>
             /\ pc["poll"] = "warmup"
             /\ lock' = "poll"
             /\ read_client' = "connected"
             /\ poll_result' = "running"
             /\ span_i' = 1
             /\ attempt' = 1
             /\ pc'["poll"] = (IF ~static_data_read /\ static_spans # <<>>
                               THEN "static" ELSE "dynamic")
       /\ pc["poll"] \in {"warmup", "static", "dynamic"} =>
             poll_result' \in {"running", "ok"}]_vars

\* C28 witness: a map published, static values and polled values in it, by a cycle
\* whose only wake-up read raised
C28_Witness ==
    /\ BetweenCycles
    /\ poll_result = "ok"
    /\ wakeups = <<"raise">>
    /\ call.op = "read_dynamic"
    /\ static_span_failed = {}
    /\ span_failed = {}
    /\ {"software_version", "power", "control_state"} \subseteq DOMAIN data

\* C27 (as claimed): a cycle that has given up on a failing wake-up read has made
\* more than one wake-up attempt.
C27_WarmupRetried ==
    (/\ pc["poll"] # "warmup"
     /\ wakeups # <<>>
     /\ wakeups[Len(wakeups)] # "ok") => Len(wakeups) > 1

\* C29 (as claimed): the shutdown job closes the write connection, if open, holding
\* the lock, and completes normally whether or not close() raises.
C29_ShutdownSuppresses ==
    [][(pc["shutdown"] = "close" /\ pc'["shutdown"] # "close") =>
           /\ lock = "shutdown"
           /\ client_connected => (call'.op = "close" /\ ~client_connected')
           /\ pc'["shutdown"] = "done"]_vars

\* The retry limit of the phase a poll cycle is in
Retries == IF pc["poll"] = "static" THEN STATIC_RETRIES ELSE POLL_RETRIES

\* C30: a read of a span is its first to fourth one; a failed read before the fourth
\* is followed by the next read of the same span, and after a successful read or the
\* fourth read the cycle leaves the span for a later one or for the next phase.
C30_SpanReadLimit ==
    [][(/\ call'.by = "poll"
        /\ call'.op \in {"read_static", "read_dynamic"}
        /\ pc["poll"] \in {"static", "dynamic"}
        /\ <<pc["poll"], span_i, attempt>> # <<pc["poll"], span_i, attempt>>') =>
           /\ attempt \in 1..(1 + Retries)
           /\ IF call'.outcome # "ok" /\ attempt < 1 + Retries
              THEN pc'["poll"] = pc["poll"] /\ span_i' = span_i /\ attempt' = attempt + 1
              ELSE \/ pc'["poll"] = pc["poll"] /\ span_i' = span_i + 1 /\ attempt' = 1
                   \/ pc'["poll"] # pc["poll"] /\ pc'["poll"] # "static"]_vars

\* C30 witness: the first dynamic span read successfully and left, the second one
\* failed three times and about to be read a fourth time
C30_Witness ==
    /\ pc["poll"] = "dynamic"
    /\ span_i = 2
    /\ attempt = 4
    /\ span_failed = {}
    /\ call.op = "read_dynamic"
    /\ call.outcome = "failed"

\* C36 (as claimed): a transport write is issued only for a key whose definition is
\* writable.
C36_WritesOnlyWritable ==
    [][(pc["writer"] = "write" /\ call'.by = "writer" /\ call'.op = "write") =>
           get_register_definition(wkey, registers).definition.writable]_vars

\* A step made while the thread holds the lock, or that takes or releases it
LockStepOf(t) == lock = t \/ lock' = t

-----------------------------------------------------------------------------
(* Progress of the coordinator's threads, checked under SpecFair *)

\* Where a poll cycle is: its phase, the span it reads and the attempt on that span
PollPosition ==
    << CASE pc["poll"] = "connect" -> 1
         [] pc["poll"] = "warmup"  -> 2
         [] pc["poll"] = "static"  -> 3
         [] pc["poll"] = "dynamic" -> 4
         [] OTHER -> 0,
       span_i, attempt >>

\* Where a write is
WritePosition ==
    CASE pc["writer"] = "connect" -> 1
      [] pc["writer"] = "write"   -> 2
      [] OTHER -> 0

\* Lexicographic order of positions
before(p, q) ==
    \/ p[1] < q[1]
    \/ p[1] = q[1] /\ p[2] < q[2]
    \/ p[1] = q[1] /\ p[2] = q[2] /\ p[3] < q[3]

\* C26: under fair scheduling a write waiting for the lock gets it, and so does a
\* poll cycle; whoever holds the lock gives it up again, and a thread that has left
\* its with block, by return or by exception, does not hold it.  The transport calls
\* of a cycle are bounded: a span is read at most 1 + 3 times, the spans are those
\* of the two lists, and every call moves the cycle to a later position (phase, span,
\* attempt) or ends it; a write makes at most a connect and then a write.
C26_LockProgress ==
    /\ (pc["writer"] = "lock") ~> (lock = "writer")
    /\ (pc["poll"] = "lock") ~> (lock = "poll")
    /\ \A t \in Threads : (lock = t) ~> (lock # t)
    /\ [](\A t \in Threads : lock = t <=> DeviceIO(t))
    /\ [](/\ pc["poll"] = "static" =>
                attempt \in 1..(1 + STATIC_RETRIES) /\ span_i \in 1..Len(static_spans)
          /\ pc["poll"] = "dynamic" =>
                attempt \in 1..(1 + POLL_RETRIES) /\ span_i \in 1..Len(poll_spans))
    /\ [][/\ (call'.by = "poll" /\ lock = "poll" /\ lock' = "poll") =>
              before(PollPosition, PollPosition')
          /\ (call'.by = "writer" /\ lock = "writer" /\ lock' = "writer") =>
              WritePosition' > WritePosition]_vars

\* C26 witness: the write holds the lock that a cycle left by its exception path,
\* and the next cycle waits behind the write
C26_Witness ==
    /\ lock = "writer"
    /\ pc["writer"] = "write"
    /\ pc["poll"] = "lock"
    /\ poll_result = "UpdateFailed"

-----------------------------------------------------------------------------
(* Properties of the published map on 2.x firmware, checked under SpecModes *)

\* C21: on a 2.x coordinator every published map that holds control_state holds the
\* three flags, each 0 or 1, with home_state = 1 exactly at control_state 2,
\* boost_state = 1 exactly at 3 and overpressure_state = 1 exactly at 4 and 5; at
\* most one of them is 1.
C21_DerivedStates ==
    (/\ BetweenCycles
     /\ startswith(software_version, <<"2", ".">>)
     /\ "control_state" \in DOMAIN data) =>
        /\ DerivedKeys \subseteq DOMAIN data
        /\ \A k \in DerivedKeys : data[k] \in {0, 100}
        /\ data["home_state"] = 100 <=> data["control_state"] = 200
        /\ data["boost_state"] = 100 <=> data["control_state"] = 300
        /\ data["overpressure_state"] = 100 <=> data["control_state"] \in {400, 500}
        /\ Cardinality({k \in DerivedKeys : data[k] = 100}) <= 1

\* C21 witness: a published map of a controller in fireplace mode
C21_Witness ==
    /\ BetweenCycles
    /\ poll_result = "ok"
    /\ software_version = SOFTWARE_VERSION_2
    /\ "control_state" \in DOMAIN data
    /\ data["control_state"] = 500
    /\ data["overpressure_state"] = 100
    /\ data["home_state"] = 0
    /\ data["boost_state"] = 0

-----------------------------------------------------------------------------
(* Properties of the shim, checked under SpecShim *)

\* C10 (as claimed): the candidate loop runs in at most one read call of the process.
C10_ProbesInOneCall == probe_calls["read"] <= 1

\* C10 (amended): the read cache is set only by a call inside the candidate loop, when
\* a candidate's call returns or every candidate was rejected; a transport error in
\* the loop leaves it unset.  Once set it never changes, no read call enters the loop,
\* and a read call that found it set makes exactly one transport call, with the
\* cached keyword.
C10_ProbeUntilCached ==
    [][/\ read_kwarg # None => read_kwarg' = read_kwarg
       /\ \A t \in ShimThreads :
            /\ (sop'[t] = "read" /\ path'[t] = "probe" /\ path[t] # "probe") =>
                  read_kwarg = None
            /\ (sop'[t] = "read" /\ path'[t] \in {"fast", "locked"} /\ spc'[t] = "idle") =>
                  ncalls'[t] = 1 /\ used_kw'[t] = read_kwarg'
            /\ (sop[t] = "read" /\ spc[t] = "probe" /\ sres'[t] = "TransportError") =>
                  read_kwarg' = read_kwarg
       /\ (read_kwarg = None /\ read_kwarg' # None) =>
             \E t \in ShimThreads :
                /\ sop[t] = "read"
                /\ spc[t] = "probe"
                /\ sres'[t] \in {"result", "error_result"} \/ spc'[t] = "fallback"]_vars

\* C10 witness: after two read calls that ran the loop (the first ended in a transport
\* error) a read call took the cached keyword and made one transport call
C10_Witness ==
    \E t \in ShimThreads :
        /\ probe_calls["read"] = 2
        /\ sop[t] = "read"
        /\ path[t] = "fast"
        /\ spc[t] = "idle"
        /\ ncalls[t] = 1
        /\ used_kw[t] = "slave"
        /\ read_kwarg = "slave"

\* C11: when every candidate is rejected with TypeError the shim caches device_id
\* and makes one more call with it; whatever that call raises or returns is what the
\* caller gets (a raise is a failed block for _read_register_block and False for
\* write_register); a later call of the same kind takes the cached keyword and does
\* not enter the candidate loop.
C11_FallbackToDefault ==
    [][\A t \in ShimThreads :
         /\ (spc[t] = "probe" /\ spc'[t] = "fallback") =>
               /\ cand_i[t] = Len(candidates(sop[t]))
               /\ ncalls'[t] = Len(candidates(sop[t]))
               /\ IF sop[t] = "read" THEN read_kwarg' = "device_id"
                                     ELSE write_kwarg' = "device_id"
         /\ spc[t] = "fallback" =>
               /\ cached_kwarg(sop[t]) = "device_id"
               /\ (spc'[t] = "idle" =>
                     /\ used_kw'[t] = "device_id"
                     /\ ncalls'[t] = Len(candidates(sop[t])) + 1
                     /\ (accepted # "device_id" => sres'[t] = "TypeError")
                     /\ read_kwarg' = read_kwarg
                     /\ write_kwarg' = write_kwarg)
         /\ (accepted = None /\ cached_kwarg(sop'[t]) # None /\ spc[t] = "idle"
             /\ spc'[t] # "idle") =>
               /\ spc'[t] = "fast"
               /\ cached_kwarg(sop'[t]) = "device_id"
         /\ ~read_register_block(response("raise", WAKEUP_ADDRESS, 1), 1).ok
         /\ ~write_succeeded("raise")]_vars

\* C11 witness: one thread ran through all candidates and the default call, another
\* read later with the cached default, and both got the library's TypeError
C11_Witness ==
    /\ accepted = None
    /\ read_kwarg = "device_id"
    /\ \E t, u \in ShimThreads :
         /\ sop[t] = "read" /\ path[t] = "probe" /\ spc[t] = "idle"
         /\ ncalls[t] = Len(READ_CANDIDATES) + 1 /\ sres[t] = "TypeError"
         /\ sop[u] = "read" /\ path[u] = "fast" /\ spc[u] = "idle"
         /\ ncalls[u] = 1 /\ used_kw[u] = "device_id" /\ sres[u] = "TypeError"

\* The positions inside the with block of the shim
InShimLock(t) == spc[t] \in {"locked", "probe", "fallback"}

\* C12 (as claimed): whenever a thread leaves the candidate loop while another thread
\* of the same kind of call waits for the lock, the cache is set, so that the waiting
\* thread does not probe.
C12_WaitersFindCache ==
    [][\A t, u \in ShimThreads :
          (/\ spc[t] = "wait"
           /\ sop[t] = sop[u]
           /\ spc[u] \in {"probe", "fallback"}
           /\ spc'[u] = "idle") => (IF sop[t] = "read" THEN read_kwarg' ELSE write_kwarg') # None]_vars

\* C12 (amended): at most one thread is inside the with block, and it holds the lock;
\* a cached keyword is never replaced; a thread that waited enters the loop only if
\* the cache of its kind of call is still unset, which after a loop of the same kind
\* happens only when that loop ended in a transport error.
C12_ProbeUnderLock ==
    [][/\ \A t, u \in ShimThreads : InShimLock(t) /\ InShimLock(u) => t = u
       /\ \A t \in ShimThreads : InShimLock(t) => shim_lock = t
       /\ read_kwarg # None => read_kwarg' = read_kwarg
       /\ write_kwarg # None => write_kwarg' = write_kwarg
       /\ \A t \in ShimThreads :
            /\ (spc[t] = "wait" /\ spc'[t] = "probe") => cached_kwarg(sop[t]) = None
            /\ (spc[t] = "wait" /\ spc'[t] # "wait" /\ cached_kwarg(sop[t]) # None) =>
                  spc'[t] = "locked"
            /\ \A u \in ShimThreads :
                  (/\ spc[t] = "wait"
                   /\ sop[t] = sop[u]
                   /\ spc[u] \in {"probe", "fallback"}
                   /\ spc'[u] = "idle"
                   /\ sres'[u] # "TransportError") => (IF sop[t] = "read" THEN read_kwarg' ELSE write_kwarg') # None]_vars

\* C12 witness: a thread that found the cache unset, waited for the lock while the
\* other thread probed, found the cache set and made its one call under the lock
C12_Witness ==
    \E t, u \in ShimThreads :
        /\ t # u
        /\ sop[t] = "write" /\ sop[u] = "write"
        /\ path[u] = "probe" /\ spc[u] = "idle" /\ used_kw[u] = "unit"
        /\ path[t] = "locked" /\ spc[t] = "idle"
        /\ ncalls[t] = 1 /\ used_kw[t] = "unit"
        /\ probe_calls["write"] = 1

\* Lines 26-27 read left to right
CandidateOrder == <<"device_id", "slave", "unit">>

\* C32 (as claimed): the loop tries device_id, slave, unit in that order; the first
\* candidate whose call is not rejected with TypeError is cached and ends the loop.
C32_FirstAcceptedCached ==
    [][\A t \in ShimThreads :
         (spc[t] = "probe" /\ ncalls'[t] = ncalls[t] + 1) =>
            (/\ cand_i[t] = ncalls[t] + 1
             /\ used_kw'[t] = CandidateOrder[cand_i[t]]
             /\ IF used_kw'[t] # accepted
                THEN cand_i[t] < Len(CandidateOrder) =>
                        (/\ cand_i'[t] = cand_i[t] + 1
                         /\ spc'[t] = "probe"
                         /\ read_kwarg' = read_kwarg
                         /\ write_kwarg' = write_kwarg)
                ELSE /\ spc'[t] = "idle"
                     /\ (IF sop[t] = "read" THEN read_kwarg' ELSE write_kwarg')
                           = used_kw'[t])]_vars

\* C32 (amended): the loop tries device_id, slave, unit in that order; the first
\* candidate whose call is not rejected with TypeError ends the loop, and it is cached
\* if that call returned; if the call raised another exception the cache stays unset.
C32_FirstReturnedCached ==
    [][\A t \in ShimThreads :
         (spc[t] = "probe" /\ ncalls'[t] = ncalls[t] + 1) =>
            (/\ cand_i[t] = ncalls[t] + 1
             /\ used_kw'[t] = CandidateOrder[cand_i[t]]
             /\ cached_kwarg(sop[t]) = None
             /\ IF used_kw'[t] # accepted
                THEN cand_i[t] < Len(CandidateOrder) =>
                        (/\ cand_i'[t] = cand_i[t] + 1
                         /\ spc'[t] = "probe"
                         /\ read_kwarg' = read_kwarg
                         /\ write_kwarg' = write_kwarg)
                ELSE /\ spc'[t] = "idle"
                     /\ (IF sop[t] = "read" THEN read_kwarg' ELSE write_kwarg')
                           = (IF sres'[t] = "TransportError" THEN None ELSE used_kw'[t])
                     /\ (IF sop[t] = "read" THEN write_kwarg' = write_kwarg
                                            ELSE read_kwarg' = read_kwarg))]_vars

\* C32 witness: a write call that found device_id rejected and slave accepted, made
\* no third call and left slave cached for writes
C32_Witness ==
    \E t \in ShimThreads :
        /\ accepted = "slave"
        /\ sop[t] = "write"
        /\ path[t] = "probe"
        /\ spc[t] = "idle"
        /\ ncalls[t] = 2
        /\ cand_i[t] = 2
        /\ used_kw[t] = "slave"
        /\ sres[t] = "result"
        /\ write_kwarg = "slave"

-----------------------------------------------------------------------------
(* Properties of the two locks, checked under SpecLocks *)

\* A thread inside the shim whose next step waits for nothing: it is at a transport
\* call, or at the shim's lock while that lock is free
ShimCanStep(s) ==
    \/ spc[s] \in {"fast", "locked", "probe", "fallback"}
    \/ spc[s] = "wait" /\ shim_lock = NoThread

\* The holder of the coordinator's lock can go on: it is in the with block outside
\* the shim, or its shim call has returned, or its shim call can step, or it waits
\* for the shim's lock and the detector, which holds that lock, can step
HolderCanStep(t) ==
    \/ pc[t] = "held"
    \/ /\ pc[t] = "in_shim"
       /\ \/ spc[CoordinatorCaller] = "idle"
          \/ ShimCanStep(CoordinatorCaller)
          \/ shim_lock = DetectorCaller /\ ShimCanStep(DetectorCaller)

\* The steps of the threads that are under way: every step but the arrival of a new
\* call
StepUnderWay ==
    \/ \E t \in Threads : LockAcquire(t)
    \/ \E t \in Threads : LockedShimCall(t)
    \/ \E t \in Threads : LockedShimReturn(t)
    \/ \E t \in Threads : LockRelease(t)
    \/ \E s \in ShimThreads : ShimStep(s)

\* C38: whenever a thread is under way some thread can step, and the holder of each
\* lock can go on (nobody waits in a circle); the shim's lock is held only inside a
\* shim call, by the detector or by the coordinator thread that holds the
\* coordinator's lock, and no thread takes the coordinator's lock while it is inside
\* the shim; a thread that is back at rest, or waiting for a lock, holds neither lock
\* of its own.
C38_NoDeadlockLockOrder ==
    /\ []((\E t \in Threads : pc[t] # "idle") \/ (\E s \in ShimThreads : spc[s] # "idle")
             => ENABLED StepUnderWay)
    /\ [](/\ lock # NoThread => HolderCanStep(lock)
          /\ shim_lock # NoThread => spc[shim_lock] \in {"locked", "probe", "fallback"}
          /\ shim_lock = CoordinatorCaller =>
                (lock \in {"poll", "writer"} /\ pc[lock] = "in_shim")
          /\ spc[CoordinatorCaller] # "idle" =>
                (lock \in {"poll", "writer"} /\ pc[lock] = "in_shim")
          /\ \A t \in Threads : pc[t] \in {"idle", "lock"} => lock # t
          /\ \A s \in ShimThreads : spc[s] \in {"idle", "wait", "fast"} => shim_lock # s)
    /\ [][\A t \in Threads :
            (lock # t /\ lock' = t) =>
               (/\ lock = NoThread
                /\ pc[t] = "lock"
                /\ pc'[t] = "held"
                /\ shim_lock # CoordinatorCaller
                /\ spc[CoordinatorCaller] = "idle")]_vars

\* C38 witness: the poll cycle holds both locks, probing inside the shim, while a
\* write waits for the coordinator's lock and the detector waits for the shim's
C38_Witness ==
    /\ lock = "poll"
    /\ pc["poll"] = "in_shim"
    /\ shim_lock = CoordinatorCaller
    /\ spc[CoordinatorCaller] = "probe"
    /\ pc["writer"] = "lock"
    /\ pc["shutdown"] = "lock"
    /\ spc[DetectorCaller] = "wait"

-----------------------------------------------------------------------------
(* Properties of the setup flow, checked under SpecFlow *)

\* The version words of a family's band: 2.00..2.99 and 1.00..1.99
Band(firmware) == IF firmware = "2.xx" THEN 200..299 ELSE 100..199

\* C13: the detector sets a family only in the probe of that family, when the version
\* read and the machine-type read at the family's addresses both gave a word and the
\* version word is in the family's band; a probe in which a read failed or the
\* version is outside the band sets nothing and moves to the next family, and after
\* the last family the detector returns None (the flow is at the manual form with no
\* family detected).
C13_TwoRegisterConsensus ==
    [][/\ (detected_sw_version' # detected_sw_version
           /\ detected_sw_version' # SOFTWARE_VERSION_UNKNOWN) =>
             /\ fpc = "probe_vm"
             /\ detected_sw_version' = version_of(detection_sets[det_i].firmware)
             /\ raw_sw.ok /\ raw_sw.value = device[detection_sets[det_i].sw_address]
             /\ raw_vm'.ok /\ raw_vm'.value = device[detection_sets[det_i].vm_address]
             /\ raw_sw.value \in Band(detection_sets[det_i].firmware)
       /\ (fpc = "probe_vm"
           /\ ~(raw_sw.ok /\ raw_vm'.ok
                /\ raw_sw.value \in Band(detection_sets[det_i].firmware))) =>
             /\ detected_sw_version' = SOFTWARE_VERSION_UNKNOWN
             /\ IF det_i < Len(detection_sets)
                THEN fpc' = "probe_sw" /\ det_i' = det_i + 1
                ELSE fpc' = "manual_form" /\ entry' = NoEntry
       /\ fpc = "probe_sw" => detected_sw_version = SOFTWARE_VERSION_UNKNOWN
       /\ fpc \in {"heater", "test"} => detected_sw_version # SOFTWARE_VERSION_UNKNOWN
       /\ fpc = "manual_form" => detected_sw_version = SOFTWARE_VERSION_UNKNOWN]_vars

\* C13 witness: 1.xx confirmed at the upper end of its band after the 2.xx probe read
\* a version word just above the 2.xx band
C13_Witness ==
    /\ fpc = "heater"
    /\ detected_sw_version = SOFTWARE_VERSION_1
    /\ det_i = 2
    /\ device[1015] = 300
    /\ raw_sw = [ok |-> TRUE, value |-> 199]
    /\ raw_vm = [ok |-> TRUE, value |-> 80]

\* C14: when no family is confirmed the flow is at the manual_version form with the
\* client closed, nothing detected and no entry; an entry exists only after the test
\* read of a confirmed family or after the operator submitted the manual form, and
\* its firmware family is the confirmed one (its two reads and band on record) or the
\* one the operator submitted.
C14_NoGuessedFamily ==
    /\ fpc = "manual_form" =>
          /\ detection_failed
          /\ detected_sw_version = SOFTWARE_VERSION_UNKNOWN
          /\ flow_client = "closed"
          /\ entry = NoEntry
          /\ manual_input = NoInput
    /\ entry.created <=> fpc = "created"
    /\ entry.created =>
          /\ entry.software_version \in {SOFTWARE_VERSION_1, SOFTWARE_VERSION_2}
          /\ IF manual_input.submitted
             THEN /\ detection_failed
                  /\ detected_sw_version = SOFTWARE_VERSION_UNKNOWN
                  /\ entry.software_version = manual_input.software_version
             ELSE /\ entry.software_version = detected_sw_version
                  /\ detected_sw_version = version_of(detection_sets[det_i].firmware)
                  /\ raw_sw.ok /\ raw_vm.ok
                  /\ raw_sw.value \in Band(detection_sets[det_i].firmware)

\* C14 witness: both probes failed on a 2.xx controller and the operator chose 2.x
C14_Witness ==
    /\ entry.created
    /\ manual_input.submitted
    /\ detection_failed
    /\ device[1015] = 200
    /\ ~raw_vm.ok
    /\ entry.software_version = SOFTWARE_VERSION_2

\* The addresses the detection loop of lines 150-162 has read, in the order read
RECURSIVE detection_reads(_)
detection_reads(reads) ==
    IF reads = <<>> THEN <<>>
    ELSE LET r == reads[Len(reads)]
             earlier == detection_reads(SubSeq(reads, 1, Len(reads) - 1))
         IN IF r.step \in {"version", "machine"} THEN Append(earlier, r.address)
            ELSE earlier

\* Lines 97-110 read top to bottom: the two addresses of 2.xx, then the two of 1.xx
DetectionOrder == <<1015, 1125, 1018, 1244>>

\* C31: the detection reads are the 2.xx pair and then, only if 2.xx was not
\* confirmed, the 1.xx pair; a verdict is given by the set being tried on the consensus
\* of its own two reads, and no detection read follows it: when 2.xx is the verdict
\* neither 1018 nor 1244 has been read.
C31_FixedOrderFirstConfirmation ==
    /\ [](LET reads == detection_reads(probed)
          IN /\ Len(reads) <= Len(DetectionOrder)
             /\ reads = SubSeq(DetectionOrder, 1, Len(reads))
             /\ (detected_sw_version = SOFTWARE_VERSION_2 => reads = <<1015, 1125>>)
             /\ (detected_sw_version = SOFTWARE_VERSION_1 => reads = DetectionOrder))
    /\ [][/\ (detected_sw_version' # detected_sw_version
               /\ detected_sw_version' # SOFTWARE_VERSION_UNKNOWN) =>
                  (/\ detected_sw_version = SOFTWARE_VERSION_UNKNOWN
                   /\ detected_sw_version' = (IF det_i = 1 THEN SOFTWARE_VERSION_2
                                              ELSE SOFTWARE_VERSION_1)
                   /\ sw_valid(raw_sw, [sw_min |-> IF det_i = 1 THEN 200 ELSE 100,
                                        sw_max |-> IF det_i = 1 THEN 299 ELSE 199])
                   /\ raw_vm'.ok)
          /\ (det_i' = 2 /\ det_i = 1) =>
                  (/\ detected_sw_version' = SOFTWARE_VERSION_UNKNOWN
                   /\ ~(raw_vm'.ok /\ sw_valid(raw_sw, [sw_min |-> 200, sw_max |-> 299])))]_vars

\* C31 witness: an entry created for a controller confirmed as 2.xx, after the reads
\* of 1015 and 1125 and no other detection read
C31_Witness ==
    /\ fpc = "created"
    /\ entry.created
    /\ entry.software_version = SOFTWARE_VERSION_2
    /\ ~detection_failed
    /\ detection_reads(probed) = <<1015, 1125>>
    /\ device[1018] \in 100..199

-----------------------------------------------------------------------------
(* Properties of the setup flow and the coordinator it leads to, checked under
   SpecSetup *)

\* C37 (as claimed): the unit id the coordinator of a flow-made entry passes to the
\* shim with its reads and its writes is the unit id of every read that
\* validate_connection made for that entry.
C37_SameUnitAsDetector ==
    fpc = "loaded" =>
        /\ probed # <<>>
        /\ \A i \in 1..Len(probed), op \in ShimOps :
              Call("any", op, 1001, 1, "ok").unit = probed[i].unit

-----------------------------------------------------------------------------
(* Properties of _build_read_ranges, checked under SpecRanges *)

\* The addresses a span covers
span_addresses(span) == span[1]..(span[1] + span[2] - 1)

\* C15: for every register list and every max_registers >= 1 the spans returned are
\* in ascending order of start address and do not overlap, each has a count between
\* 1 and max_registers, every address of the list lies in exactly one span (an
\* address that two keys share included), and the empty list gives no span.
C15_SpansPartitionAddresses ==
    applied = "_build_read_ranges" =>
        LET addresses == DOMAIN grouped(arguments.key_addresses)
        IN /\ \A i \in 1..Len(returned) :
                /\ returned[i][2] >= 1
                /\ returned[i][2] <= arguments.max_registers
           /\ \A i \in 1..(Len(returned) - 1) :
                returned[i][1] + returned[i][2] <= returned[i + 1][1]
           /\ \A a \in addresses :
                Cardinality({i \in 1..Len(returned) : a \in span_addresses(returned[i])}) = 1
           /\ addresses = {} => returned = <<>>

\* C15 witness: two keys share 1020 and the limit cuts the run 1020..1022
C15_Witness ==
    /\ applied = "_build_read_ranges"
    /\ arguments.key_addresses = <<1020, 1021, 1020, 1022>>
    /\ arguments.max_registers = 2
    /\ returned = << <<1020, 2>>, <<1022, 1>> >>

\* C16: two consecutive spans are either not contiguous or the first has
\* max_registers addresses; the addresses 1020, 1021, 1022, 1024 with the default
\* limit give (1020, 3), (1024, 1).
C16_SpansMergedMaximally ==
    applied = "_build_read_ranges" =>
        /\ \A i \in 1..(Len(returned) - 1) :
              \/ returned[i + 1][1] > returned[i][1] + returned[i][2]
              \/ returned[i][2] = arguments.max_registers
        /\ (/\ DOMAIN grouped(arguments.key_addresses) = {1020, 1021, 1022, 1024}
            /\ arguments.max_registers = MAX_REGISTERS) =>
                 returned = << <<1020, 3>>, <<1024, 1>> >>

\* C16 witness: the four addresses, listed out of order, under the default limit
C16_Witness ==
    /\ applied = "_build_read_ranges"
    /\ arguments.key_addresses = <<1024, 1022, 1020, 1021>>
    /\ arguments.max_registers = MAX_REGISTERS
    /\ returned = << <<1020, 3>>, <<1024, 1>> >>

-----------------------------------------------------------------------------
(* Properties of the decode and encode steps, checked under SpecCodec *)

C18_OptionalAbsentWhenNegative ==
    applied \in {"read_static", "read_dynamic"} =>
        LET w == device[CodecAddress]
        IN \A k \in DOMAIN arguments.catalog :
              arguments.catalog[k].optional =>
                 /\ k \notin DOMAIN returned <=> w > 32767
                 /\ k \in DOMAIN returned =>
                       returned[k] = signed(w) * arguments.catalog[k].scale

\* C18 witness: 65535 (-1) read on the static path for two optional keys of one address
C18_Witness ==
    /\ applied = "read_static"
    /\ device[CodecAddress] = 65535
    /\ DOMAIN arguments.catalog = {"a", "b"}
    /\ arguments.catalog["b"].optional
    /\ returned = EmptyMap

\* C19: the raw value handed to the shim for a value v and a scale s is an integer
\* nearest to v / s, and for s = 1 it is v cut to an integer; 21.5 at scale 0.5 is 43.
C19_EncodeRounds ==
    applied = "write" =>
        LET definition == arguments.catalog["a"]
            v == arguments.value
            raw_value == returned.raw_value
        IN /\ definition.scale = 100 =>
                 IF v >= 0 THEN raw_value * 100 <= v /\ v < raw_value * 100 + 100
                           ELSE raw_value * 100 >= v /\ v > raw_value * 100 - 100
           /\ definition.scale # 100 =>
                 /\ 2 * (raw_value * definition.scale - v) <= definition.scale
                 /\ 2 * (v - raw_value * definition.scale) <= definition.scale
           /\ (v = 2150 /\ definition.scale = 50) => raw_value = 43

\* C19 witness: 21.5 written to a register of scale 0.5
C19_Witness ==
    /\ applied = "write"
    /\ arguments.value = 2150
    /\ arguments.catalog["a"].scale = 50
    /\ returned.raw_value = 43

\* C35 (as claimed): the raw value handed to the shim is a 16-bit word, that of a
\* negative value being its two's complement: 65536 less the magnitude.
C35_RawIsWord ==
    applied = "write" =>
        /\ returned.raw_value \in 0..65535
        /\ arguments.value <= -100 =>
              \E raw_value \in to_raw_float(arguments.catalog["a"], arguments.value) :
                 returned.raw_value = 65536 + raw_value

\* C20: for a register that is not optional, the value decoded from the word that
\* holds the encoded raw value differs from the value written by less than one unit
\* of the scale.
C20_RoundTrip ==
    (applied = "write" /\ ~arguments.catalog["a"].optional) =>
        LET definition == arguments.catalog["a"]
            decoded == from_raw(definition, signed(returned.raw_value % 65536))
        IN /\ decoded - arguments.value < definition.scale
           /\ arguments.value - decoded < definition.scale

\* C20 witness: 12.34 written at scale 0.1 goes out as 123 and comes back as 12.3
C20_Witness ==
    /\ applied = "write"
    /\ ~arguments.catalog["a"].optional
    /\ arguments.catalog["a"].scale = 10
    /\ arguments.value = 1234
    /\ returned.raw_value = 123
    /\ from_raw(arguments.catalog["a"], signed(returned.raw_value % 65536)) = 1230

-----------------------------------------------------------------------------
(* Properties of the catalog, checked under SpecCatalog *)

\* The digits of VersionChars and their values, for the numeric reading of a version
\* string that C23 is stated in
Digits == {"0", "1", "2", "3"}
digit_value(c) == CASE c = "0" -> 0 [] c = "1" -> 1 [] c = "2" -> 2 [] c = "3" -> 3

\* float(v) accepts a string of digits with at most one point and at least one digit
parses_as_number(v) ==
    /\ \A i \in 1..Len(v) : v[i] \in Digits \cup {"."}
    /\ Cardinality({i \in 1..Len(v) : v[i] = "."}) <= 1
    /\ \E i \in 1..Len(v) : v[i] \in Digits

\* int(float(v)) of such a string: the number its digits before the point spell
RECURSIVE digits_value(_)
digits_value(ds) ==
    IF ds = <<>> THEN 0
    ELSE 10 * digits_value(SubSeq(ds, 1, Len(ds) - 1)) + digit_value(ds[Len(ds)])

major_component(v) ==
    LET points == {i \in 1..Len(v) : v[i] = "."}
        n == IF points = {} THEN Len(v) ELSE (CHOOSE i \in points : TRUE) - 1
    IN digits_value(SubSeq(v, 1, n))

\* C23 (as claimed): the v2 builder is selected exactly when the version string
\* parses as a number whose integer part is at least 2, and the v1 builder for every
\* other string, the unparseable ones too.
C23_MajorComponentSelects ==
    applied = "get_registers_for_version" =>
        (returned.builder = "v2" <=>
            (parses_as_number(arguments.version)
             /\ major_component(arguments.version) >= 2))

\* C23 (amended): the v2 builder is selected exactly when the version string begins
\* with the two characters "2." and the v1 builder otherwise; the returned map is
\* the one that builder makes.  So a string that parses as a number selects v2 only
\* if its integer part is 2 and it has a point, and "2.x" selects v2.
C23_PrefixSelects ==
    applied = "get_registers_for_version" =>
        LET v == arguments.version
        IN /\ returned.builder \in {"v1", "v2"}
           /\ returned.builder = "v2" <=> (Len(v) >= 2 /\ v[1] = "2" /\ v[2] = ".")
           /\ returned.registers =
                 (IF returned.builder = "v2" THEN build_registers_v2
                  ELSE build_registers_v1)
           /\ (parses_as_number(v) /\ returned.builder = "v2") =>
                 major_component(v) = 2
           /\ (parses_as_number(v) /\ major_component(v) < 2) =>
                 returned.builder = "v1"

\* C23 witness: "2.x" does not parse as a number and selects the v2 builder
C23_Witness ==
    /\ applied = "get_registers_for_version"
    /\ arguments.version = SOFTWARE_VERSION_2
    /\ ~parses_as_number(arguments.version)
    /\ returned.builder = "v2"

\* C24 (as claimed): the map for "2.x" has power at 1180, control_state at 1181 and
\* software_version at 1015, the map for "1.x" has them at 1208, 1185 and 1018.
C24_FamilyAddresses ==
    applied = "get_registers_for_version" =>
        /\ arguments.version = SOFTWARE_VERSION_2 =>
              /\ returned.registers["power"].address = 1180
              /\ returned.registers["control_state"].address = 1181
              /\ returned.registers["software_version"].address = 1015
        /\ arguments.version = SOFTWARE_VERSION_1 =>
              /\ returned.registers["power"].address = 1208
              /\ returned.registers["control_state"].address = 1185
              /\ returned.registers["software_version"].address = 1018

\* C25 (as claimed): the definition returned for overpressure_timer is writable,
\* whatever the version.
C25_OverpressureTimerWritable ==
    (applied = "get_register_definition" /\ arguments.key = "overpressure_timer") =>
        /\ returned.raised = None
        /\ returned.definition.writable

\* ---------------------------------------------------------------------------
\* Properties of one span read and stored, checked under SpecBlock
\* ---------------------------------------------------------------------------

=============================================================================
